---- MODULE Spec2Model ----
(***************************************************************************)
(* DealerEdge: the GEX analytics and signal engine (src/analyzer.py) and   *)
(* the symbol scanner (src/scanner.py) as a state machine.                 *)
(*                                                                         *)
(* Units.  Gamma exposure is counted in units of 1e8 dollars, so the       *)
(* thresholds of strategies_config (-1e9, -500e6, 2e9, 1e9, 3e9, 500e6)    *)
(* are the integers -10, -5, 20, 10, 30, 5.  Prices and strikes are whole  *)
(* dollars.  Quantities the code computes by division (gamma_flip,         *)
(* distance_to_flip, wall distances) are exact fractions [n, d]; d = 0     *)
(* stands for the IEEE values numpy produces on a division by zero         *)
(* (n = 1: +inf, n = -1: -inf, n = 0: NaN).  A confidence is kept in       *)
(* hundredths (round(x, 2) * 100), an opportunity score in thousandths.    *)
(***************************************************************************)
EXTENDS Integers, Sequences, FiniteSets, TLC

VARIABLES
    options_data,   \* analyze: the snapshot get_options_chain returned (<<>> is None)
    gex_profile,    \* analyze: what calculate_gex_profile returned (<<>> is None)
    signals,        \* analyze: what generate_all_signals returned
    symbol,         \* analyze: the symbol being analysed
    pc,             \* analyze: position in the fetch -> profile -> signals pipeline
    scan_kind,      \* scan: whose scan_multiple_symbols runs ("analyzer" or "scanner")
    scan_input,     \* scan: the caller's list as it was when the call was made
    symbols,        \* scan: the caller's list object (the scanner extends it in place)
    env,            \* scan: the clock and the volatility index during the scan
    min_confidence, \* scan: the min_confidence argument, in hundredths
    futures,        \* scan: one record per submitted task
    results,        \* scan: the coordinator's results list
    completed,      \* scan: the coordinator's progress counter
    scan_pc,        \* scan: "idle", "running" (inside the with block) or "returned"
    call,           \* a direct call of one method: its name, arguments and return value
    positions,      \* position manager: the active list (PositionManager.positions)
    closed_positions, \* position manager: the history list
    position_counter, \* position manager: the last id handed out
    last_auto_scan, \* analyzer: start of the last recorded auto scan (<<>> is None)
    auto_log,       \* one record per call of auto_scan_and_alert: what the call did
    clock           \* the wall clock datetime.now() reads, in half hours

analyzeVars == <<options_data, gex_profile, signals, symbol, pc>>
scanVars == <<scan_kind, scan_input, symbols, env, min_confidence, futures, results,
              completed, scan_pc>>
managerVars == <<positions, closed_positions, position_counter>>
autoVars == <<last_auto_scan, auto_log>>
deskVars == <<positions, closed_positions, position_counter, last_auto_scan, auto_log, clock>>
vars == <<options_data, gex_profile, signals, symbol, pc, scan_kind, scan_input, symbols,
          env, min_confidence, futures, results, completed, scan_pc, call,
          positions, closed_positions, position_counter, last_auto_scan, auto_log, clock>>

-----------------------------------------------------------------------------
(* Arithmetic helpers                                                      *)

Abs(x) == IF x < 0 THEN -x ELSE x
Min(a, b) == IF a < b THEN a ELSE b
Max(a, b) == IF a > b THEN a ELSE b
Sgn(x) == IF x < 0 THEN -1 ELSE IF x > 0 THEN 1 ELSE 0

\* The fraction n/d with a positive denominator; x/0 as numpy divides.
Frac(n, d) ==
    IF d = 0 THEN [n |-> Sgn(n), d |-> 0]
    ELSE IF d < 0 THEN [n |-> -n, d |-> -d]
    ELSE [n |-> n, d |-> d]

FracInt(k) == [n |-> k, d |-> 1]
IsNaN(x) == x.d = 0 /\ x.n = 0
IsFinite(x) == x.d > 0

\* a < b on floats: false as soon as one side is NaN.
FracLt(a, b) ==
    IF IsNaN(a) \/ IsNaN(b) THEN FALSE
    ELSE IF a.d = 0 /\ b.d = 0 THEN a.n < b.n
    ELSE a.n * b.d < b.n * a.d

FracAbs(x) == [n |-> Abs(x.n), d |-> x.d]

\* round(n/d * 100 ... ) to the nearest integer, ties to even (Python's round),
\* for n >= 0 and d > 0.
RoundHalfEven(n, d) ==
    LET q == n \div d
        r == n % d
    IN  IF 2 * r < d THEN q
        ELSE IF 2 * r > d THEN q + 1
        ELSE IF q % 2 = 0 THEN q ELSE q + 1

RECURSIVE SeqSum(_)
SeqSum(s) == IF s = <<>> THEN 0 ELSE Head(s) + SeqSum(Tail(s))

RECURSIVE SetToSortedSeq(_)
\* The elements of a finite set of integers in ascending order.
SetToSortedSeq(S) ==
    IF S = {} THEN <<>>
    ELSE LET m == CHOOSE x \in S : \A y \in S : x <= y
         IN  <<m>> \o SetToSortedSeq(S \ {m})

-----------------------------------------------------------------------------
(* strategies_config and the other settings of DealerEdgeAnalyzer.__init__ *)

negative_gex_threshold_spy == -10
negative_gex_threshold_qqq == -5
positive_gex_threshold_spy == 20
positive_gex_threshold_qqq == 10
premium_positive_gex_threshold == 30
wall_strength_threshold == 5
wall_distance_lo == 1
wall_distance_hi == 5
put_distance_lo == 1
put_distance_hi == 8
min_gex_threshold == 10
min_wall_spread == 3
WallCount == 5

-----------------------------------------------------------------------------
(* The inputs: chain snapshots as get_options_chain builds them            *)

MaxExpirations == 2

Strikes == {95, 100, 105}
ValidSpots == {100, 101}
InvalidSpots == {0, -100}
CallGexValues == {5, 40}
PutGexValues == {-5, -20}
VolumeValues == {0, 100}
Symbols == {"SPY", "QQQ", "IWM"}

Row(k, g, v) == [strike |-> k, gex |-> g, openInterest |-> 100, volume |-> v]

\* One side of one expiration: at most one row per strike, ascending by strike
\* as the provider lists them; pick[k] = 0 means no row at strike k.
SideRows(pick, v) ==
    LET ks == SetToSortedSeq({k \in Strikes : pick[k] # 0})
    IN  [i \in 1 .. Len(ks) |-> Row(ks[i], IF pick[ks[i]] = 1 THEN 0 ELSE pick[ks[i]], v)]

\* A further expiration holding a single row: a put at or below 100, a call
\* above.
ThinChain(k, v) ==
    [calls |-> IF k > 100 THEN <<Row(k, 5, v)>> ELSE <<>>,
     puts  |-> IF k <= 100 THEN <<Row(k, -5, v)>> ELSE <<>>,
     dte   |-> 9]

RECURSIVE ThinChains(_, _)
ThinChains(ks, v) ==
    IF ks = <<>> THEN <<>> ELSE <<ThinChain(Head(ks), v)>> \o ThinChains(Tail(ks), v)

\* Sequences of at most n strikes, one per further expiration.
RECURSIVE StrikeSeqs(_)
StrikeSeqs(n) ==
    IF n = 0 THEN {<<>>}
    ELSE StrikeSeqs(n - 1) \cup
         {<<k>> \o s : k \in Strikes, s \in {t \in StrikeSeqs(n - 1) : Len(t) = n - 1}}

\* get_options_chain keeps an expiration only when it has a call or a put row
\* (analyzer.py:148), so no chain of a snapshot is empty on both sides.
Snapshot(spot, cpick, ppick, extra, v) ==
    LET first == [calls |-> SideRows(cpick, v), puts |-> SideRows(ppick, v), dte |-> 2]
        head  == IF first.calls = <<>> /\ first.puts = <<>> THEN <<>> ELSE <<first>>
    IN  [current_price |-> spot, chains |-> head \o ThinChains(extra, v)]

\* With a valid spot every gex value of the alphabet occurs; with a spot <= 0
\* black_scholes_gamma returns 0 (analyzer.py:62), so every row carries gex 0
\* (pick value 1 is a row of gex 0).  A missing spot is <<>>.
ValidSnapshots ==
    {Snapshot(<<s>>, cp, pp, ex, v) :
        s \in ValidSpots,
        cp \in [Strikes -> {0} \cup CallGexValues],
        pp \in [Strikes -> {0} \cup PutGexValues],
        ex \in StrikeSeqs(MaxExpirations - 1),
        v \in VolumeValues}

InvalidSpotSnapshots ==
    {Snapshot(s, cp, pp, <<>>, v) :
        s \in {<<x>> : x \in InvalidSpots} \cup {<<>>},
        cp \in [Strikes -> {0, 1}],
        pp \in [Strikes -> {0, 1}],
        v \in VolumeValues}

\* <<>> is "no data" (None); <<d>> is the snapshot d.
Snapshots == {<<>>} \cup {<<d>> : d \in ValidSnapshots \cup InvalidSpotSnapshots}

-----------------------------------------------------------------------------
(* pandas helpers                                                          *)

\* Python's tuple order: a > b, for two key tuples of the same length.
LexGt(a, b) ==
    \E i \in 1 .. Len(a) :
        /\ a[i] > b[i]
        /\ \A j \in 1 .. i - 1 : a[j] = b[j]

\* list.sort(key=..., reverse=True) and DataFrame.nlargest: a stable sort,
\* descending by key; key[i] is the key tuple of s[i], and elements whose keys
\* are equal keep their original order.
SortStableDesc(s, key) ==
    LET n == Len(s)
        ahead(j, i) == \/ LexGt(key[j], key[i])
                       \/ (~LexGt(key[i], key[j]) /\ j < i)
        rank(i) == Cardinality({j \in 1 .. n : ahead(j, i)}) + 1
    IN  [r \in 1 .. n |-> s[CHOOSE i \in 1 .. n : rank(i) = r]]

FirstN(s, n) == SubSeq(s, 1, Min(n, Len(s)))

RECURSIVE ConcatField(_, _)
\* The rows of one side ("calls" or "puts") over all expirations, in chain order.
ConcatField(chains, side) ==
    IF chains = <<>> THEN <<>>
    ELSE Head(chains)[side] \o ConcatField(Tail(chains), side)

\* The sum of one column over the rows at strike k.
SumAt(rows, k, col) ==
    LET sel == SelectSeq(rows, LAMBDA r : r.strike = k)
    IN  SeqSum([i \in 1 .. Len(sel) |-> sel[i][col]])

Column(df, col) == [i \in 1 .. Len(df) |-> df[i][col]]

-----------------------------------------------------------------------------
(* calculate_gex_profile and the routines it calls                         *)

\* analyzer.py:212-262: the strike table, one row per strike over all
\* expirations, ascending by strike, with net_gex and its running sum.
strike_data(chains) ==
    LET calls == ConcatField(chains, "calls")
        puts  == ConcatField(chains, "puts")
        ks    == SetToSortedSeq({calls[i].strike : i \in 1 .. Len(calls)}
                                \cup {puts[i].strike : i \in 1 .. Len(puts)})
        base  == [i \in 1 .. Len(ks) |->
                    [strike      |-> ks[i],
                     call_gex    |-> SumAt(calls, ks[i], "gex"),
                     put_gex     |-> SumAt(puts, ks[i], "gex"),
                     call_oi     |-> SumAt(calls, ks[i], "openInterest"),
                     put_oi      |-> SumAt(puts, ks[i], "openInterest"),
                     call_volume |-> SumAt(calls, ks[i], "volume"),
                     put_volume  |-> SumAt(puts, ks[i], "volume")]]
        net(i) == base[i].call_gex + base[i].put_gex
    IN  [i \in 1 .. Len(ks) |->
            [strike         |-> base[i].strike,
             call_gex       |-> base[i].call_gex,
             put_gex        |-> base[i].put_gex,
             call_oi        |-> base[i].call_oi,
             put_oi         |-> base[i].put_oi,
             call_volume    |-> base[i].call_volume,
             put_volume     |-> base[i].put_volume,
             net_gex        |-> net(i),
             cumulative_gex |-> SeqSum([j \in 1 .. i |-> net(j)])]]

\* The interpolation with the ratio taken against |next_val| instead of the
\* span |next_val - curr|.
interpolate_flip_wrong_span(df, i) ==
    LET curr     == df[i].cumulative_gex
        next_val == df[i + 1].cumulative_gex
        den      == Abs(next_val)
    IN  Frac(df[i].strike * den + Abs(curr) * (df[i + 1].strike - df[i].strike), den)

\* analyzer.py:326-327: the interpolated crossing of the pair (i, i+1).
interpolate_flip(df, i) ==
    LET curr     == df[i].cumulative_gex
        next_val == df[i + 1].cumulative_gex
        den      == Abs(next_val - curr)
    IN  Frac(df[i].strike * den + Abs(curr) * (df[i + 1].strike - df[i].strike), den)

\* The fallback taking the first row of the table whatever its value.
first_row_strike(df) == FracInt(df[1].strike)

\* analyzer.py:330-331: the strike of the first row of smallest |cumulative_gex|.
smallest_abs_cumulative(df) ==
    LET best == CHOOSE i \in 1 .. Len(df) :
                    /\ \A j \in 1 .. Len(df) :
                          Abs(df[i].cumulative_gex) <= Abs(df[j].cumulative_gex)
                    /\ \A j \in 1 .. i - 1 :
                          Abs(df[j].cumulative_gex) > Abs(df[i].cumulative_gex)
    IN  FracInt(df[best].strike)

RECURSIVE flip_walk(_, _)
\* analyzer.py:317-331: the walk over adjacent pairs from pair i on.
flip_walk(df, i) ==
    IF i > Len(df) - 1 THEN smallest_abs_cumulative(df)
    ELSE LET curr     == df[i].cumulative_gex
             next_val == df[i + 1].cumulative_gex
         IN  IF /\ (curr <= 0 /\ 0 <= next_val) \/ (curr >= 0 /\ 0 >= next_val)
                /\ next_val # curr
             THEN interpolate_flip(df, i)
             ELSE flip_walk(df, i + 1)

\* The walk that starts at the second pair and so never looks at the first.
find_gamma_flip_from_second_pair(df, current_price) ==
    IF df = <<>> THEN FracInt(current_price) ELSE flip_walk(df, 2)

\* analyzer.py:314-334.  On an empty table idxmin raises and the except
\* branch returns current_price.
find_gamma_flip(df, current_price) ==
    IF df = <<>> THEN FracInt(current_price) ELSE flip_walk(df, 1)

\* analyzer.py:266-267
call_walls(df) ==
    LET sel == SelectSeq(df, LAMBDA r : r.call_gex > 0)
    IN  FirstN(SortStableDesc(sel, [i \in 1 .. Len(sel) |-> <<sel[i].call_gex>>]), WallCount)

\* nsmallest(5, 'put_gex') is nlargest on the negated column.
put_walls(df) ==
    LET sel == SelectSeq(df, LAMBDA r : r.put_gex < 0)
    IN  FirstN(SortStableDesc(sel, [i \in 1 .. Len(sel) |-> <<-sel[i].put_gex>>]), WallCount)

\* analyzer.py:274: ((current_price - gamma_flip) / current_price) * 100
distance_to_flip(current_price, flip) ==
    Frac(100 * (current_price * flip.d - flip.n), flip.d * current_price)

\* analyzer.py:350-358 and 367-378: pin_risk > 70 and institutional_flow, the
\* two entries of mm_behavior that calculate_dealer_pain reads.
\* max(total_gamma, 1) is 1 only when total_gamma is 0, and then near_gamma is 0.
analyze_market_maker_behavior(df, current_price) ==
    LET near == SelectSeq(df, LAMBDA r : /\ 100 * r.strike >= 99 * current_price
                                         /\ 100 * r.strike <= 101 * current_price)
        near_gamma  == SeqSum(Column(near, "call_gex")) + Abs(SeqSum(Column(near, "put_gex")))
        total_gamma == Abs(SeqSum(Column(df, "call_gex"))) + Abs(SeqSum(Column(df, "put_gex")))
        total_volume == SeqSum(Column(df, "call_volume")) + SeqSum(Column(df, "put_volume"))
        total_oi     == SeqSum(Column(df, "call_oi")) + SeqSum(Column(df, "put_oi"))
    IN  [pin_risk_high      |-> Len(near) > 0 /\ total_gamma > 0
                                /\ 100 * near_gamma > 70 * total_gamma,
         institutional_flow |-> total_oi > 0 /\ 2 * total_volume > total_oi]

\* The score without the final clip to 100.
calculate_dealer_pain_unclipped(net_gex, dist, mm_behavior) ==
    LET a == IF net_gex < 0 THEN Min(50, Abs(net_gex)) ELSE 0
        b == IF FracLt(FracAbs(dist), FracInt(1)) THEN 30
             ELSE IF FracLt(FracAbs(dist), FracInt(2)) THEN 20 ELSE 0
        c == IF mm_behavior.pin_risk_high THEN 20 ELSE 0
        d == IF mm_behavior.institutional_flow THEN 10 ELSE 0
    IN  a + b + c + d

\* analyzer.py:441-459.  abs(net_gex / 1e9) * 10 is |net_gex| in units of 1e8.
calculate_dealer_pain(net_gex, dist, mm_behavior) ==
    LET a == IF net_gex < 0 THEN Min(50, Abs(net_gex)) ELSE 0
        b == IF FracLt(FracAbs(dist), FracInt(1)) THEN 30
             ELSE IF FracLt(FracAbs(dist), FracInt(2)) THEN 20 ELSE 0
        c == IF mm_behavior.pin_risk_high THEN 20 ELSE 0
        d == IF mm_behavior.institutional_flow THEN 10 ELSE 0
    IN  Min(100, a + b + c + d)

\* Twice the median of a non-empty sequence of distinct strikes.
TwiceMedian(ks) ==
    LET sorted == SetToSortedSeq({ks[i] : i \in 1 .. Len(ks)})
        n == Len(sorted)
    IN  IF n % 2 = 1 THEN 2 * sorted[(n + 1) \div 2]
        ELSE sorted[n \div 2] + sorted[n \div 2 + 1]

\* analyzer.py:390-439.  hour is datetime.now().hour.
calculate_flow_toxicity(chains, total_volume, hour) ==
    LET N == 1 .. Len(chains)
        large_trades ==
            SeqSum([c \in N |->
                        Len(SelectSeq(chains[c].calls, LAMBDA r : r.openInterest > 1000))
                        + Len(SelectSeq(chains[c].puts, LAMBDA r : r.openInterest > 1000))])
        weekly_preference ==
            SeqSum([c \in N |->
                        IF chains[c].dte <= 7
                        THEN SeqSum(Column(chains[c].calls, "volume"))
                             + SeqSum(Column(chains[c].puts, "volume"))
                        ELSE 0])
        otm_activity ==
            SeqSum([c \in N |->
                        IF Len(chains[c].calls) > 0
                        THEN LET m2 == TwiceMedian(Column(chains[c].calls, "strike"))
                             IN  Len(SelectSeq(chains[c].calls, LAMBDA r : 20 * r.strike > 11 * m2))
                                 + Len(SelectSeq(chains[c].puts, LAMBDA r : 20 * r.strike < 9 * m2))
                        ELSE 0])
        small_lots ==
            SeqSum([c \in N |->
                        Len(SelectSeq(chains[c].calls, LAMBDA r : r.volume < 10))
                        + Len(SelectSeq(chains[c].puts, LAMBDA r : r.volume < 10))])
        score == (IF large_trades > 5 THEN 20 ELSE 0)
                 - (IF total_volume > 0 /\ 10 * weekly_preference > 7 * Max(total_volume, 1)
                    THEN 20 ELSE 0)
                 - (IF otm_activity > 10 THEN 15 ELSE 0)
                 - (IF small_lots > 20 THEN 10 ELSE 0)
                 + (IF (9 <= hour /\ hour <= 10) \/ (15 <= hour /\ hour <= 16) THEN 10 ELSE 0)
    IN  Max(-100, Min(100, score))

\* The classifier testing the positive-gamma rule before the two pain rules.
determine_mm_status_defending_first(net_gex, dealer_pain, dist) ==
    IF net_gex > 30 THEN "DEFENDING"
    ELSE IF dealer_pain > 80 THEN "TRAPPED SHORT"
    ELSE IF dealer_pain > 60 THEN "SCRAMBLING"
    ELSE IF FracLt(FracAbs(dist), FracInt(1)) THEN "VULNERABLE"
    ELSE "NEUTRAL"

\* analyzer.py:461-472
determine_mm_status(net_gex, dealer_pain, dist) ==
    IF dealer_pain > 80 THEN "TRAPPED SHORT"
    ELSE IF dealer_pain > 60 THEN "SCRAMBLING"
    ELSE IF net_gex > 30 THEN "DEFENDING"
    ELSE IF FracLt(FracAbs(dist), FracInt(1)) THEN "VULNERABLE"
    ELSE "NEUTRAL"

\* analyzer.py:283-288
regime_of(net_gex) ==
    IF net_gex < -10 THEN "EXTREME_VOLATILITY"
    ELSE IF net_gex < 0 THEN "NORMAL_VOLATILITY"
    ELSE "LOW_VOLATILITY"

\* analyzer.py:269-270
total_call_gex(df) == SeqSum(Column(df, "call_gex"))
total_put_gex(df) == SeqSum(Column(df, "put_gex"))

\* net_gex as a difference, forgetting that put_gex is already signed.
net_gex_of_difference(df) == total_call_gex(df) - total_put_gex(df)

\* analyzer.py:271
net_gex_of(df) == total_call_gex(df) + total_put_gex(df)

\* analyzer.py:256-309, for a snapshot that passed the guards.
build_profile(current_price, chains, vix) ==
    LET df    == strike_data(chains)
        flip  == find_gamma_flip(df, current_price)
        net   == net_gex_of(df)
        dist  == distance_to_flip(current_price, flip)
        mmb   == analyze_market_maker_behavior(df, current_price)
        pain  == calculate_dealer_pain(net, dist, mmb)
    IN  [strike_data      |-> df,
         current_price    |-> current_price,
         gamma_flip       |-> flip,
         net_gex          |-> net,
         total_call_gex   |-> total_call_gex(df),
         total_put_gex    |-> total_put_gex(df),
         call_walls       |-> call_walls(df),
         put_walls        |-> put_walls(df),
         total_volume     |-> SeqSum(Column(df, "call_volume")) + SeqSum(Column(df, "put_volume")),
         total_oi         |-> SeqSum(Column(df, "call_oi")) + SeqSum(Column(df, "put_oi")),
         distance_to_flip |-> dist,
         mm_behavior      |-> mmb,
         dealer_pain      |-> pain,
         mm_status        |-> determine_mm_status(net, pain, dist),
         vix              |-> vix,
         regime           |-> regime_of(net)]

\* analyzer.py:200-312.  od is <<>> (None) or <<snapshot>>; the result is
\* <<>> (None) or <<profile>>.  The guards test for absent data and for no
\* expirations only; a missing current_price raises (caught: None), and so
\* does a strike table without rows (df['call_gex'] on an empty frame).
calculate_gex_profile(od, vix) ==
    IF od = <<>> THEN <<>>
    ELSE LET d == od[1] IN
         IF d.chains = <<>> THEN <<>>
         ELSE IF d.current_price = <<>> THEN <<>>
         ELSE IF strike_data(d.chains) = <<>> THEN <<>>
         ELSE <<build_profile(d.current_price[1], d.chains, vix)>>

-----------------------------------------------------------------------------
(* generate_all_signals and the three strategy families                    *)

\* round(min(cap, x), 2) in hundredths, x being the uncapped confidence in
\* hundredths.  Every x passed here is built from an absolute value or from a
\* range_width above min_wall_spread, so a non-finite x is +inf or NaN, and
\* Python's min(cap, x) keeps cap (it takes x only when x < cap is true).
capped_confidence(cap, x) ==
    IF ~IsFinite(x) THEN cap
    ELSE IF x.n >= cap * x.d THEN cap
    ELSE IF x.n >= 0 THEN RoundHalfEven(x.n, x.d)
    ELSE -RoundHalfEven(-x.n, x.d)

Signal(t, dir, conf, win, entry) ==
    [type |-> t, direction |-> dir, confidence |-> conf, win_rate |-> win, entry |-> entry]

\* analyzer.py:572-573: min(95, 65 + dealer_pain/4 + abs(distance_to_flip) * 2)
squeeze_calls_confidence(dealer_pain, dist) ==
    LET a == FracAbs(dist)
    IN  capped_confidence(9500,
            IF IsFinite(a) THEN Frac((6500 + 25 * dealer_pain) * a.d + 200 * a.n, a.d)
            ELSE a)

\* analyzer.py:596-597:
\* min(75, 60 + (net_gex/pos_threshold) * 10 + (0.5 - abs(distance_to_flip)) * 20)
squeeze_puts_confidence(net_gex, pos_threshold, dist) ==
    LET a == FracAbs(dist)
    IN  capped_confidence(7500,
            Frac(7000 * pos_threshold * a.d + 1000 * net_gex * a.d
                    - 2000 * a.n * pos_threshold,
                 pos_threshold * a.d))

\* The negative threshold of SPY applied to every symbol.
neg_threshold_spy_for_all(sym) == negative_gex_threshold_spy

\* analyzer.py:568-569
neg_threshold(sym) ==
    IF sym = "SPY" THEN negative_gex_threshold_spy ELSE negative_gex_threshold_qqq

pos_threshold(sym) ==
    IF sym = "SPY" THEN positive_gex_threshold_spy ELSE positive_gex_threshold_qqq

\* analyzer.py:550-617
generate_squeeze_signals(p, sym) ==
    (IF p.net_gex < neg_threshold(sym) \/ p.dealer_pain > 70
     THEN <<Signal("SQUEEZE_PLAY", "BUY CALLS",
                   squeeze_calls_confidence(p.dealer_pain, p.distance_to_flip), 65, <<>>)>>
     ELSE <<>>)
    \o
    (IF /\ p.net_gex > pos_threshold(sym)
        /\ FracLt(FracAbs(p.distance_to_flip), Frac(1, 2))
     THEN <<Signal("SQUEEZE_PLAY", "BUY PUTS",
                   squeeze_puts_confidence(p.net_gex, pos_threshold(sym), p.distance_to_flip),
                   55, <<>>)>>
     ELSE <<>>)

\* The sell-calls confidence without its min(80, ...) cap.
sell_calls_confidence_uncapped(wall_strength) ==
    RoundHalfEven(6000 * wall_strength_threshold + 1000 * wall_strength,
                  wall_strength_threshold)

\* analyzer.py:638-639: min(80, 60 + (wall_strength/wall_strength_threshold) * 10)
sell_calls_confidence(wall_strength) ==
    capped_confidence(8000,
        Frac(6000 * wall_strength_threshold + 1000 * wall_strength, wall_strength_threshold))

\* analyzer.py:665-666: min(75, 55 + (wall_strength/wall_strength_threshold) * 10)
sell_puts_confidence(wall_strength) ==
    capped_confidence(7500,
        Frac(5500 * wall_strength_threshold + 1000 * wall_strength, wall_strength_threshold))

\* lo < x < hi on floats
InBand(lo, x, hi) == FracLt(FracInt(lo), x) /\ FracLt(x, FracInt(hi))

\* analyzer.py:619-686
generate_premium_signals(p) ==
    (IF p.net_gex > premium_positive_gex_threshold /\ Len(p.call_walls) > 0
     THEN LET strongest_call == p.call_walls[1]
              wall_distance  == Frac(100 * (strongest_call.strike - p.current_price),
                                     p.current_price)
          IN  IF InBand(wall_distance_lo, wall_distance, wall_distance_hi)
              THEN <<Signal("PREMIUM_SELLING", "SELL CALLS",
                            sell_calls_confidence(strongest_call.call_gex), 70,
                            <<strongest_call.strike>>)>>
              ELSE <<>>
     ELSE <<>>)
    \o
    (IF p.net_gex > 0 /\ Len(p.put_walls) > 0
     THEN LET strongest_put == p.put_walls[1]
              wall_distance == Frac(100 * (p.current_price - strongest_put.strike),
                                    p.current_price)
          IN  IF InBand(put_distance_lo, wall_distance, put_distance_hi)
              THEN <<Signal("PREMIUM_SELLING", "SELL PUTS",
                            sell_puts_confidence(Abs(strongest_put.put_gex)), 75,
                            <<strongest_put.strike>>)>>
              ELSE <<>>
     ELSE <<>>)

\* analyzer.py:718-719: min(85, 65 + (range_width - min_wall_spread) * 2)
condor_confidence(range_width) ==
    capped_confidence(8500,
        IF IsFinite(range_width)
        THEN Frac((6500 - 200 * min_wall_spread) * range_width.d + 200 * range_width.n,
                  range_width.d)
        ELSE range_width)

\* analyzer.py:688-740
generate_condor_signals(p) ==
    IF p.net_gex > min_gex_threshold /\ Len(p.call_walls) > 0 /\ Len(p.put_walls) > 0
    THEN LET call_strike == p.call_walls[1].strike
             put_strike  == p.put_walls[1].strike
             range_width == Frac(100 * (call_strike - put_strike), p.current_price)
         IN  IF FracLt(FracInt(min_wall_spread), range_width)
             THEN <<Signal("IRON_CONDOR", "SELL CONDOR", condor_confidence(range_width), 80,
                           <<put_strike, call_strike>>)>>
             ELSE <<>>
    ELSE <<>>

\* The no-data branch answering with the monitoring signal of the fallback.
no_data_signal_as_monitoring == Signal("WAIT", "SET ALERT", 4000, 0, <<>>)

\* analyzer.py:479-495
no_data_signal == Signal("WAIT", "NO DATA", 0, 0, <<>>)

\* generate_all_signals without its fallback branch.
fallback_signals_missing(p) == <<>>

\* analyzer.py:505-544: the branch taken when no family produced a signal
fallback_signals(p) ==
    IF p.dealer_pain > 60
    THEN <<Signal("VOLATILITY", "BUY STRADDLE", 6000, 55, <<>>)>>
    ELSE <<Signal("WAIT", "SET ALERT", 4000, 0, <<>>)>>

\* analyzer.py:497-503
family_signals(p, sym) ==
    generate_squeeze_signals(p, sym) \o generate_premium_signals(p)
        \o generate_condor_signals(p)

Reverse(s) == [i \in 1 .. Len(s) |-> s[Len(s) + 1 - i]]

\* An ascending sort followed by reverse(): equal confidences come out in
\* reverse emission order.
sort_signals_ties_reversed(sigs) ==
    Reverse(SortStableDesc(sigs, [i \in 1 .. Len(sigs) |-> <<-sigs[i].confidence>>]))

\* analyzer.py:546: signals.sort(key=lambda x: x['confidence'], reverse=True)
sort_signals(sigs) ==
    SortStableDesc(sigs, [i \in 1 .. Len(sigs) |-> <<sigs[i].confidence>>])

\* generate_all_signals adding the fallback signal whether or not a family
\* produced a signal.
generate_all_signals_always_fallback(gp, sym) ==
    IF gp = <<>> THEN <<no_data_signal>>
    ELSE sort_signals(family_signals(gp[1], sym) \o fallback_signals(gp[1]))

\* analyzer.py:474-548.  gp is <<>> (None) or <<profile>>.
generate_all_signals(gp, sym) ==
    IF gp = <<>> THEN <<no_data_signal>>
    ELSE LET fam == family_signals(gp[1], sym)
         IN  sort_signals(IF fam = <<>> THEN fallback_signals(gp[1]) ELSE fam)

-----------------------------------------------------------------------------
(* Single-symbol analysis: fetch, build the profile, generate the signals  *)
(* (main.py:307-313)                                                       *)

DefaultVix == 15

ScanIdle ==
    /\ scan_kind = "none"
    /\ scan_input = <<>>
    /\ symbols = <<>>
    /\ env = [vix |-> DefaultVix, opex_week |-> FALSE, quad_month |-> FALSE,
              friday_pm |-> FALSE]
    /\ min_confidence = 5000
    /\ futures = <<>>
    /\ results = <<>>
    /\ completed = 0
    /\ scan_pc = "idle"

AnalyzeInit ==
    /\ options_data = <<>>
    /\ gex_profile = <<>>
    /\ signals = <<>>
    /\ symbol = ""
    /\ pc = "idle"

\* position_manager.py:15-19 and analyzer.py:56-57: a new PositionManager tracks
\* nothing and a new analyzer has never auto-scanned.
DeskIdle ==
    /\ positions = <<>>
    /\ closed_positions = <<>>
    /\ position_counter = 0
    /\ last_auto_scan = <<>>
    /\ auto_log = <<>>
    /\ clock = 0

\* get_options_chain returns None or a snapshot.
GetOptionsChain ==
    /\ pc = "idle"
    /\ options_data' \in Snapshots
    /\ pc' = "fetched"
    /\ UNCHANGED <<gex_profile, signals, symbol>>
    /\ UNCHANGED <<scanVars, call, deskVars>>

CalculateGexProfile ==
    /\ pc = "fetched"
    /\ gex_profile' = calculate_gex_profile(options_data, DefaultVix)
    /\ pc' = "profiled"
    /\ UNCHANGED <<options_data, signals, symbol>>
    /\ UNCHANGED <<scanVars, call, deskVars>>

GenerateAllSignals ==
    /\ pc = "profiled"
    /\ \E sym \in Symbols :
          /\ symbol' = sym
          /\ signals' = generate_all_signals(gex_profile, sym)
    /\ pc' = "signalled"
    /\ UNCHANGED <<options_data, gex_profile>>
    /\ UNCHANGED <<scanVars, call, deskVars>>

\* No method has been called directly.
NoCall == call = [fn |-> "none", done |-> FALSE]

Init == AnalyzeInit /\ ScanIdle /\ NoCall /\ DeskIdle

Next ==
    \/ GetOptionsChain
    \/ CalculateGexProfile
    \/ GenerateAllSignals

Spec == Init /\ [][Next]_vars

-----------------------------------------------------------------------------
(* SymbolScanner: pattern scan and opportunity score                       *)

Pattern(t, conf) == [type |-> t, confidence |-> conf]

\* max(patterns_found, key=confidence): the first pattern of largest confidence
best_exploit_of(found) ==
    IF found = <<>> THEN <<>>
    ELSE LET best == CHOOSE i \in 1 .. Len(found) :
                        /\ \A j \in 1 .. Len(found) : found[i].confidence >= found[j].confidence
                        /\ \A j \in 1 .. i - 1 : found[j].confidence < found[i].confidence
         IN  <<found[best]>>

RECURSIVE MaxOf(_)
MaxOf(s) == IF s = <<>> THEN 0 ELSE Max(Head(s), MaxOf(Tail(s)))

\* scanner.py:126-218: the patterns of a profile gp (<<>> when there is none);
\* e is the clock and the volatility index.  Each pattern contributes the
\* vulnerability it raises mm_vulnerability to.
mm_patterns_of(gp, e) ==
    IF gp = <<>>
    THEN [patterns_found |-> <<>>, mm_vulnerability |-> 0, best_exploit |-> <<>>]
    ELSE LET p    == gp[1]
             dist == FracAbs(p.distance_to_flip)
             hits ==
                (IF p.dealer_pain > 80
                 THEN <<[pat |-> Pattern("TRAPPED_MM", Min(95, p.dealer_pain)),
                         vul |-> p.dealer_pain]>> ELSE <<>>)
                \o (IF p.net_gex < -10 /\ FracLt(dist, FracInt(1))
                    THEN <<[pat |-> Pattern("GAMMA_SQUEEZE", 85), vul |-> 85]>> ELSE <<>>)
                \o (IF FracLt(dist, Frac(3, 10))
                    THEN <<[pat |-> Pattern("PIN_RISK", 75), vul |-> 75]>> ELSE <<>>)
                \o (IF e.friday_pm /\ Abs(p.net_gex) > 20
                    THEN <<[pat |-> Pattern("CHARM_FLOW", 80), vul |-> 80]>> ELSE <<>>)
                \o (IF e.opex_week /\ p.dealer_pain > 60
                    THEN <<[pat |-> Pattern("OPEX_PRESSURE", 70), vul |-> 70]>> ELSE <<>>)
                \o (IF p.vix > 20 /\ p.net_gex < 0
                    THEN <<[pat |-> Pattern("VANNA_SQUEEZE", 75), vul |-> 75]>> ELSE <<>>)
             found == [i \in 1 .. Len(hits) |-> hits[i].pat]
         IN  [patterns_found   |-> found,
              mm_vulnerability |-> MaxOf([i \in 1 .. Len(hits) |-> hits[i].vul]),
              best_exploit     |-> best_exploit_of(found)]

\* scanner.py:108-223.  od is what this call's own get_options_chain returned.
scan_for_mm_patterns(od, e) == mm_patterns_of(calculate_gex_profile(od, e.vix), e)

\* The score without its final min(100, score).
calculate_opportunity_score_uncapped(gp, sigs, mm_vulnerability, e) ==
    IF gp = <<>> THEN mm_vulnerability * 500
    ELSE LET p    == gp[1]
             dist == FracAbs(p.distance_to_flip)
             best_confidence == MaxOf([i \in 1 .. Len(sigs) |-> sigs[i].confidence])
             flip_bonus == IF FracLt(dist, Frac(1, 2)) THEN 10
                           ELSE IF FracLt(dist, FracInt(1)) THEN 7
                           ELSE IF FracLt(dist, FracInt(2)) THEN 3 ELSE 0
             events == (IF e.opex_week THEN 5 ELSE 0)
                       + (IF e.quad_month /\ e.opex_week THEN 5 ELSE 0)
                       + (IF e.friday_pm THEN 3 ELSE 0)
         IN  mm_vulnerability * 400 + p.dealer_pain * 200
                + (IF sigs # <<>> THEN best_confidence * 2 ELSE 0)
                + flip_bonus * 1000 + events * 1000

\* scanner.py:325-363, in thousandths.  gp is <<>> (None) or <<profile>>;
\* sigs carry confidences in hundredths.
calculate_opportunity_score(gp, sigs, mm_vulnerability, e) ==
    IF gp = <<>> THEN mm_vulnerability * 500
    ELSE LET p    == gp[1]
             dist == FracAbs(p.distance_to_flip)
             best_confidence == MaxOf([i \in 1 .. Len(sigs) |-> sigs[i].confidence])
             flip_bonus == IF FracLt(dist, Frac(1, 2)) THEN 10
                           ELSE IF FracLt(dist, FracInt(1)) THEN 7
                           ELSE IF FracLt(dist, FracInt(2)) THEN 3 ELSE 0
             events == (IF e.opex_week THEN 5 ELSE 0)
                       + (IF e.quad_month /\ e.opex_week THEN 5 ELSE 0)
                       + (IF e.friday_pm THEN 3 ELSE 0)
         IN  Min(100000,
                 mm_vulnerability * 400 + p.dealer_pain * 200
                    + (IF sigs # <<>> THEN best_confidence * 2 ELSE 0)
                    + flip_bonus * 1000 + events * 1000)

\* The filter without its fallback to the unfiltered list.
filter_signals_no_fallback(sigs, mc) == SelectSeq(sigs, LAMBDA x : x.confidence >= mc)

\* analyzer.py:795 / scanner.py:254-258: the signals at or above min_confidence,
\* or all of them when none qualifies.
filter_signals(sigs, mc) ==
    IF \E i \in 1 .. Len(sigs) : sigs[i].confidence >= mc
    THEN SelectSeq(sigs, LAMBDA x : x.confidence >= mc)
    ELSE sigs

\* scanner.py:261-273: the entry of a symbol that has a profile
scanner_entry(sym, mm_patterns, gp, sigs, e) ==
    [symbol |-> sym, gex_profile |-> gp, signals |-> sigs,
     best_signal |-> IF sigs # <<>> THEN <<sigs[1]>> ELSE <<>>,
     opportunity_score |->
         calculate_opportunity_score(gp, sigs, mm_patterns.mm_vulnerability, e),
     mm_patterns |-> mm_patterns.patterns_found,
     mm_vulnerability |-> mm_patterns.mm_vulnerability,
     best_exploit |-> mm_patterns.best_exploit]

\* scanner.py:246-285: the entry built from the pattern scan and the profile
scanner_result(sym, mm_patterns, gp, e, mc) ==
    IF gp # <<>>
    THEN scanner_entry(sym, mm_patterns, gp,
                       filter_signals(generate_all_signals(gp, sym), mc), e)
    ELSE [symbol |-> sym, gex_profile |-> <<>>, signals |-> <<>>,
          best_signal |-> <<>>,
          opportunity_score |-> mm_patterns.mm_vulnerability * 500,
          mm_patterns |-> mm_patterns.patterns_found,
          mm_vulnerability |-> mm_patterns.mm_vulnerability,
          best_exploit |-> mm_patterns.best_exploit]

\* scanner.py:239-298.  od1 is the chain scan_for_mm_patterns fetched, od2 the
\* chain process_symbol fetched itself; fault is "none" or the text of an
\* exception raised inside the try block.  The result is a dict.
scanner_process_symbol(sym, od1, od2, fault, e, mc) ==
    IF fault # "none"
    THEN [symbol |-> sym, error |-> IF fault = "silent" THEN "" ELSE fault,
          opportunity_score |-> 0, mm_vulnerability |-> 0, mm_patterns |-> <<>>,
          best_exploit |-> <<>>]
    ELSE scanner_result(sym, scan_for_mm_patterns(od1, e),
                        calculate_gex_profile(od2, e.vix), e, mc)

\* analyzer.py:794-803: the entry of a symbol that has a profile
analyzer_entry(sym, gp, sigs, filtered) ==
    [symbol |-> sym, gex_profile |-> gp,
     signals |-> IF filtered # <<>> THEN filtered ELSE sigs,
     best_signal |-> IF filtered # <<>> THEN <<filtered[1]>>
                     ELSE IF sigs # <<>> THEN <<sigs[1]>> ELSE <<>>]

\* analyzer.py:795: the signals at or above min_confidence
at_least(sigs, mc) == SelectSeq(sigs, LAMBDA x : x.confidence >= mc)

\* analyzer.py:792-814: the entry built from the profile
analyzer_result(sym, gp, sigs, mc) ==
    IF gp # <<>>
    THEN analyzer_entry(sym, gp, sigs, at_least(sigs, mc))
    ELSE [symbol |-> sym, gex_profile |-> <<>>,
          signals |-> <<[type |-> "WAIT", direction |-> "NO DATA", confidence |-> 0]>>,
          best_signal |-> <<>>]

\* analyzer.py:791-793: the profile and, when there is one, its signals
analyzer_profiled(sym, gp, mc) ==
    analyzer_result(sym, gp, IF gp # <<>> THEN generate_all_signals(gp, sym) ELSE <<>>, mc)

\* analyzer.py:788-816.  The result is <<>> (None) or <<dict>>.
analyzer_process_symbol(sym, od, fault, v, mc) ==
    IF fault # "none" THEN <<>>
    ELSE <<analyzer_profiled(sym, calculate_gex_profile(od, v), mc)>>

\* x.get(k, 0) on a result dict
GetOr0(x, k) == IF k \in DOMAIN x THEN x[k] ELSE 0

\* The sort key with its two components exchanged.
scanner_sort_key_score_first(x) == <<GetOr0(x, "opportunity_score"), GetOr0(x, "mm_vulnerability")>>

\* scanner.py:319-321: the sort key (mm_vulnerability, opportunity_score)
scanner_sort_key(x) == <<GetOr0(x, "mm_vulnerability"), GetOr0(x, "opportunity_score")>>

\* scanner.py:319-321
scanner_sort(rs) == SortStableDesc(rs, [i \in 1 .. Len(rs) |-> scanner_sort_key(rs[i])])

\* analyzer.py:834-837: the sort key (dealer_pain, best confidence)
analyzer_sort_key(x) ==
    <<IF x.gex_profile # <<>> THEN x.gex_profile[1].dealer_pain ELSE 0,
      IF x.best_signal # <<>> THEN x.best_signal[1].confidence ELSE 0>>

\* analyzer.py:834-837
analyzer_sort(rs) == SortStableDesc(rs, [i \in 1 .. Len(rs) |-> analyzer_sort_key(rs[i])])

-----------------------------------------------------------------------------
(* scan_multiple_symbols of the scanner and of the analyzer                *)

MaxSymbols == 3

\* scanner.py:233-236 pads the caller's list to 250 entries from a master list
\* of up to 300; here the threshold is 3 and the master list has 4 entries.
MinScanSymbols == 3
MasterSymbols == <<"AAPL", "QQQ", "SPY", "TSLA">>
CallerSymbols == {"SPY", "QQQ", "TSLA"}

Pick3(a, b, c) == (95 :> a) @@ (100 :> b) @@ (105 :> c)

\* The chain each symbol has on the market during a scan.
Market(sym) ==
    CASE sym = "SPY"  -> Snapshot(<<100>>, Pick3(0, 0, 0), Pick3(0, -20, 0), <<100>>, 100)
      [] sym = "TSLA" -> Snapshot(<<101>>, Pick3(0, 0, 5), Pick3(-5, 0, 0), <<>>, 0)
      [] OTHER        -> Snapshot(<<100>>, Pick3(0, 5, 40), Pick3(-5, 0, 0), <<>>, 0)

\* What one get_options_chain call for sym can return: None, or its chain.
Fetches(sym) == {<<>>, <<Market(sym)>>}

\* "none", or the text of an exception raised while a symbol is processed
\* ("silent" stands for an exception whose str() is empty).
TaskFaults == {"none", "boom", "silent"}

ScanEnvs ==
    {[vix |-> DefaultVix, opex_week |-> FALSE, quad_month |-> FALSE, friday_pm |-> FALSE],
     [vix |-> 25, opex_week |-> TRUE, quad_month |-> FALSE, friday_pm |-> TRUE]}

\* min_confidence as callers pass it: the default 50, and a stricter one
MinConfidences == {5000, 7700}

RECURSIVE DistinctSeqs(_, _)
\* The sequences of at most n distinct elements of S.
DistinctSeqs(S, n) ==
    IF n = 0 THEN {<<>>}
    ELSE {<<>>} \cup {p[1] \o p[2] : p \in {q \in {<<x>> : x \in S} \X DistinctSeqs(S, n - 1) :
                                               \A i \in 1 .. Len(q[2]) : q[2][i] # q[1][1]}}

CallerLists == DistinctSeqs(CallerSymbols, MaxSymbols)

InSeq(x, s) == \E i \in 1 .. Len(s) : s[i] = x

\* The scan of the list as the caller passed it.
padded_symbols_left_alone(list) == list

\* scanner.py:233-237: the list after symbols.extend(additional[:250 - total])
padded_symbols(list) ==
    IF Len(list) < MinScanSymbols
    THEN LET additional_symbols == SelectSeq(MasterSymbols, LAMBDA x : ~InSeq(x, list))
         IN  list \o FirstN(additional_symbols, MinScanSymbols - Len(list))
    ELSE list

\* executor.submit for every symbol of the list
submit_all(list) ==
    [i \in 1 .. Len(list) |-> [symbol |-> list[i], state |-> "pending", result |-> <<>>]]

\* scanner.py:225-237 and 301-305: the call, up to the first as_completed wait
ScannerScanCall ==
    /\ scan_pc = "idle"
    /\ \E list \in CallerLists, e \in ScanEnvs, mc \in MinConfidences :
          /\ scan_kind' = "scanner"
          /\ scan_input' = list
          /\ symbols' = padded_symbols(list)
          /\ env' = e
          /\ min_confidence' = mc
          /\ futures' = submit_all(padded_symbols(list))
    /\ results' = <<>>
    /\ completed' = 0
    /\ scan_pc' = "running"
    /\ UNCHANGED <<analyzeVars, call, deskVars>>

\* analyzer.py:783-821
AnalyzerScanCall ==
    /\ scan_pc = "idle"
    /\ \E list \in CallerLists, e \in ScanEnvs, mc \in MinConfidences :
          /\ scan_kind' = "analyzer"
          /\ scan_input' = list
          /\ symbols' = list
          /\ env' = e
          /\ min_confidence' = mc
          /\ futures' = submit_all(list)
    /\ results' = <<>>
    /\ completed' = 0
    /\ scan_pc' = "running"
    /\ UNCHANGED <<analyzeVars, call, deskVars>>

\* A pool worker runs process_symbol of the scanner for one submitted symbol.
ScannerProcessSymbol ==
    /\ scan_pc = "running"
    /\ scan_kind = "scanner"
    /\ \E i \in 1 .. Len(futures) :
          /\ futures[i].state = "pending"
          /\ \E od1 \in Fetches(futures[i].symbol), od2 \in Fetches(futures[i].symbol),
                fault \in TaskFaults :
                futures' = [futures EXCEPT ![i] =
                    [symbol |-> futures[i].symbol, state |-> "finished",
                     result |-> <<scanner_process_symbol(futures[i].symbol, od1, od2,
                                                         fault, env, min_confidence)>>]]
    /\ UNCHANGED <<scan_kind, scan_input, symbols, env, min_confidence, results,
                   completed, scan_pc>>
    /\ UNCHANGED <<analyzeVars, call, deskVars>>

\* A pool worker runs process_symbol of the analyzer for one submitted symbol.
AnalyzerProcessSymbol ==
    /\ scan_pc = "running"
    /\ scan_kind = "analyzer"
    /\ \E i \in 1 .. Len(futures) :
          /\ futures[i].state = "pending"
          /\ \E od \in Fetches(futures[i].symbol), fault \in TaskFaults :
                futures' = [futures EXCEPT ![i] =
                    [symbol |-> futures[i].symbol, state |-> "finished",
                     result |-> analyzer_process_symbol(futures[i].symbol, od, fault,
                                                        env.vix, min_confidence)]]
    /\ UNCHANGED <<scan_kind, scan_input, symbols, env, min_confidence, results,
                   completed, scan_pc>>
    /\ UNCHANGED <<analyzeVars, call, deskVars>>

\* scanner.py:309: result and not result.get('error')
scanner_keeps(result) ==
    /\ result # <<>>
    /\ ~("error" \in DOMAIN result[1] /\ result[1].error # "")

\* analyzer.py:825: if result
analyzer_keeps(result) == result # <<>>

\* scanner.py:306-316: one turn of the as_completed loop
ScannerCollect ==
    /\ scan_pc = "running"
    /\ scan_kind = "scanner"
    /\ \E i \in 1 .. Len(futures) :
          /\ futures[i].state = "finished"
          /\ futures' = [futures EXCEPT ![i].state = "collected"]
          /\ results' = IF scanner_keeps(futures[i].result)
                        THEN Append(results, futures[i].result[1])
                        ELSE results
    /\ completed' = completed + 1
    /\ UNCHANGED <<scan_kind, scan_input, symbols, env, min_confidence, scan_pc>>
    /\ UNCHANGED <<analyzeVars, call, deskVars>>

\* analyzer.py:822-832: one turn of the as_completed loop
AnalyzerCollect ==
    /\ scan_pc = "running"
    /\ scan_kind = "analyzer"
    /\ \E i \in 1 .. Len(futures) :
          /\ futures[i].state = "finished"
          /\ futures' = [futures EXCEPT ![i].state = "collected"]
          /\ results' = IF analyzer_keeps(futures[i].result)
                        THEN Append(results, futures[i].result[1])
                        ELSE results
    /\ completed' = completed + 1
    /\ UNCHANGED <<scan_kind, scan_input, symbols, env, min_confidence, scan_pc>>
    /\ UNCHANGED <<analyzeVars, call, deskVars>>

\* Leaving the loop without waiting for any task.
LeaveLoopAtOnce == TRUE

\* scanner.py:301-316 / analyzer.py:819-832: as_completed has yielded every
\* future and the with block has shut the pool down.
AllCollected == \A i \in 1 .. Len(futures) : futures[i].state = "collected"

\* scanner.py:318-323: the loop is over, the pool is shut down; sort and return
ScannerReturn ==
    /\ scan_pc = "running"
    /\ scan_kind = "scanner"
    /\ AllCollected
    /\ results' = scanner_sort(results)
    /\ scan_pc' = "returned"
    /\ UNCHANGED <<scan_kind, scan_input, symbols, env, min_confidence, futures, completed>>
    /\ UNCHANGED <<analyzeVars, call, deskVars>>

\* analyzer.py:834-839
AnalyzerReturn ==
    /\ scan_pc = "running"
    /\ scan_kind = "analyzer"
    /\ AllCollected
    /\ results' = analyzer_sort(results)
    /\ scan_pc' = "returned"
    /\ UNCHANGED <<scan_kind, scan_input, symbols, env, min_confidence, futures, completed>>
    /\ UNCHANGED <<analyzeVars, call, deskVars>>

ScanNext ==
    \/ ScannerScanCall
    \/ AnalyzerScanCall
    \/ ScannerProcessSymbol
    \/ AnalyzerProcessSymbol
    \/ ScannerCollect
    \/ AnalyzerCollect
    \/ ScannerReturn
    \/ AnalyzerReturn

SpecScan == Init /\ [][ScanNext]_vars

-----------------------------------------------------------------------------
(* The scanner's scan when a fetch may hang                                *)

\* The batch of the scan in which a fetch may hang.
HangBatch == <<"SPY", "QQQ", "TSLA">>

\* scanner.py:225-305: the scanner has just been called with HangBatch and has
\* submitted its tasks.
HangInit ==
    /\ AnalyzeInit
    /\ DeskIdle
    /\ NoCall
    /\ scan_kind = "scanner"
    /\ scan_input = HangBatch
    /\ symbols = padded_symbols(HangBatch)
    /\ env \in ScanEnvs
    /\ min_confidence \in MinConfidences
    /\ futures = submit_all(padded_symbols(HangBatch))
    /\ results = <<>>
    /\ completed = 0
    /\ scan_pc = "running"

\* A pool worker blocks for good inside process_symbol (a fetch that never
\* answers): its future never completes.  At most one task hangs.
ScannerTaskHangs ==
    /\ scan_pc = "running"
    /\ scan_kind = "scanner"
    /\ \A j \in 1 .. Len(futures) : futures[j].state # "hung"
    /\ \E i \in 1 .. Len(futures) :
          /\ futures[i].state = "pending"
          /\ futures' = [futures EXCEPT ![i].state = "hung"]
    /\ UNCHANGED <<scan_kind, scan_input, symbols, env, min_confidence, results,
                   completed, scan_pc>>
    /\ UNCHANGED <<analyzeVars, call, deskVars>>

\* scanner.py:306-308: as_completed (called without a timeout) yields only
\* completed futures, so future.result(timeout=10) never waits and a hung
\* task is never collected; ScannerCollect and ScannerReturn already say so.
HangNext ==
    \/ ScannerProcessSymbol
    \/ ScannerTaskHangs
    \/ ScannerCollect
    \/ ScannerReturn

\* The responsive workers and the coordinator keep running.
SpecHang ==
    /\ HangInit
    /\ [][HangNext]_vars
    /\ WF_vars(ScannerProcessSymbol)
    /\ WF_vars(ScannerCollect)
    /\ WF_vars(ScannerReturn)

-----------------------------------------------------------------------------
(* Direct calls of single methods.  The initial states hold a call that    *)
(* is about to be made, its arguments drawn from bounded sets; the action  *)
(* makes the call and records what it returns.                             *)

\* Floats a distance_to_flip can be: finite values around the bonus
\* thresholds 0.5, 1 and 2, both signs, the infinities and NaN.
Distances ==
    {Frac(0, 1), Frac(2, 5), Frac(-2, 5), Frac(1, 2), Frac(9, 10), Frac(1, 1), Frac(-3, 2),
     Frac(2, 1), Frac(50, 1), Frac(1, 0), Frac(-1, 0), Frac(0, 0)}

\* mm_vulnerability is 0, a dealer_pain above 80, or one of 85, 75, 80, 70.
Vulnerabilities == {0, 70, 75, 80, 85, 100}
Pains == {0, 30, 65, 100}
\* The best confidence of a signal list, in hundredths.
Confidences == {0, 4000, 7550, 10000}

Clocks ==
    {[vix |-> DefaultVix, opex_week |-> o, quad_month |-> q, friday_pm |-> f] :
        o \in BOOLEAN, q \in BOOLEAN, f \in BOOLEAN}

\* The two entries of a profile that calculate_opportunity_score reads.
ScoredProfiles ==
    {<<>>} \cup {<<[dealer_pain |-> p, distance_to_flip |-> d]>> : p \in Pains, d \in Distances}

ScoredSignals == {<<>>} \cup {<<[confidence |-> c]>> : c \in Confidences}

\* A call of calculate_opportunity_score with arguments of the ranges the
\* scanner produces, about to be made.
ScoreInit ==
    /\ AnalyzeInit
    /\ DeskIdle
    /\ ScanIdle
    /\ call \in {[fn |-> "calculate_opportunity_score", done |-> FALSE,
                  gex_profile |-> gp, signals |-> sigs, mm_vulnerability |-> v, env |-> e] :
                     gp \in ScoredProfiles, sigs \in ScoredSignals,
                     v \in Vulnerabilities, e \in Clocks}

\* scanner.py:325-363
CallOpportunityScore ==
    /\ call.fn = "calculate_opportunity_score"
    /\ ~call.done
    /\ call' = [call EXCEPT !.done = TRUE] @@
                [out |-> calculate_opportunity_score(call.gex_profile, call.signals,
                                                     call.mm_vulnerability, call.env)]
    /\ UNCHANGED <<analyzeVars, scanVars, deskVars>>

SpecScore == ScoreInit /\ [][CallOpportunityScore]_vars

\* analyzer.py:21-22 and 56-57: the attributes of a new DealerEdgeAnalyzer
\* other than strategies_config (risk_free_rate in hundredths).
NewAnalyzer ==
    [risk_free_rate |-> 5, trading_capital |-> 100000, last_auto_scan |-> <<>>,
     auto_scan_interval |-> 2]

\* An analysis that leaves a trace of the snapshot on the analyzer.
analyzer_after_analysis_remembering(self, od) == [self EXCEPT !.last_auto_scan = od]

\* analyzer.py:200-312 and 474-548: the analyzer after calculate_gex_profile
\* and generate_all_signals ran; neither assigns an attribute of self.
analyzer_after_analysis(self, od) == self

\* analyzer.py:277 and 290-309: the returned profile with the two entries
\* that depend on the clock added to gp, the profile without them (<<>> when
\* there is none).  clk is the hour and instant of datetime.now().
complete_profile(gp, od, clk) ==
    IF gp = <<>> THEN <<>>
    ELSE <<gp[1] @@
           [toxicity_score |->
                calculate_flow_toxicity(od[1].chains, gp[1].total_volume, clk.hour),
            data_timestamp |->
                IF "data_timestamp" \in DOMAIN od[1] THEN od[1].data_timestamp ELSE clk.now]>>

\* main.py:307-313: the profile and the signals generated from it
analysis_of(gp, sym) == [gex_profile |-> gp, signals |-> generate_all_signals(gp, sym)]

\* The clock at 9h (inside a toxicity window) and at 12h (outside), and two
\* values of the volatility index.
AnalysisClocks == {[hour |-> h, now |-> h, vix |-> v] : h \in {9, 12}, v \in {DefaultVix, 25}}

\* analyzer.py:194: get_options_chain stamps its snapshots; a snapshot built
\* elsewhere may lack the stamp.
AnalyzedSnapshots ==
    {<<>>} \cup
    {<<IF stamped THEN d @@ [data_timestamp |-> 8] ELSE d>> :
        stamped \in BOOLEAN,
        d \in {Snapshot(<<100>>, cp, pp, ex, v) :
                  cp \in [Strikes -> {0, 40}], pp \in [Strikes -> {0, -20}],
                  ex \in {<<>>, <<100>>}, v \in VolumeValues}}

\* Two analyses of one snapshot by a new analyzer, about to be made.
AnalyzeTwiceInit ==
    /\ AnalyzeInit
    /\ DeskIdle
    /\ ScanIdle
    /\ call \in {[fn |-> "analyze_twice", done |-> FALSE, options_data |-> od,
                  symbol |-> sym, clock1 |-> c1, clock2 |-> c2, self0 |-> NewAnalyzer] :
                     od \in AnalyzedSnapshots, sym \in {"SPY", "QQQ"},
                     c1 \in AnalysisClocks, c2 \in AnalysisClocks}

\* main.py:307-313, twice: the second analysis starts where the first left
\* the analyzer.
CallAnalyzeTwice ==
    /\ call.fn = "analyze_twice"
    /\ ~call.done
    /\ \E b1 \in {calculate_gex_profile(call.options_data, call.clock1.vix)},
          b2 \in {calculate_gex_profile(call.options_data, call.clock2.vix)} :
       \E gp1 \in {complete_profile(b1, call.options_data, call.clock1)},
          gp2 \in {complete_profile(b2, call.options_data, call.clock2)} :
          call' = [call EXCEPT !.done = TRUE] @@
                  [first  |-> analysis_of(gp1, call.symbol),
                   self1  |-> analyzer_after_analysis(call.self0, call.options_data),
                   second |-> analysis_of(gp2, call.symbol),
                   self2  |-> analyzer_after_analysis(
                                  analyzer_after_analysis(call.self0, call.options_data),
                                  call.options_data)]
    /\ UNCHANGED <<analyzeVars, scanVars, deskVars>>

SpecAnalyzeTwice == AnalyzeTwiceInit /\ [][CallAnalyzeTwice]_vars

\* What an argument of black_scholes_gamma can be, by the cases the code
\* distinguishes: no number at all (None), NaN, or a number by its sign.
GammaArgs == {"none", "nan", "neg", "zero", "pos"}

RECURSIVE first_or(_)
\* Python's `x1 <= 0 or x2 <= 0 or ...` over the arguments xs, left to right:
\* comparing None raises TypeError, NaN <= 0 is False.
first_or(xs) ==
    IF xs = <<>> THEN "false"
    ELSE IF Head(xs) = "none" THEN "raise"
    ELSE IF Head(xs) \in {"neg", "zero"} THEN "true"
    ELSE first_or(Tail(xs))

\* The guard with the test of sigma left out.
degenerate_guard_without_sigma(S, K, T, sigma) == first_or(<<T, S, K>>)

\* analyzer.py:62: T <= 0 or sigma <= 0 or S <= 0 or K <= 0
degenerate_guard(S, K, T, sigma) == first_or(<<T, sigma, S, K>>)

\* analyzer.py:65-66: what the floating-point evaluation of d1 and gamma can
\* yield, by sign.  Which of the outcomes occurs depends on magnitudes
\* (underflow, overflow, OverflowError of **) and on whether an operand is a
\* numpy or a Python float (division by zero yields inf/NaN or raises).
gamma_arithmetic(S, K, T, sigma) ==
    IF "none" \in {S, K, T, sigma} THEN {"raise"}
    ELSE IF "nan" \in {S, K, T, sigma} THEN {"nan"}
    ELSE IF S # "pos" \/ K # "pos" \/ T # "pos" \/ sigma = "zero" THEN {"nan", "raise"}
    ELSE IF sigma = "neg" THEN {"neg", "zero", "raise"}
    ELSE {"pos", "zero", "inf", "raise"}

\* analyzer.py:62-67: the try block, with o the outcome of the arithmetic.
\* It returns a value or raises.
gamma_try_block(S, K, T, sigma, o) ==
    LET guard == degenerate_guard(S, K, T, sigma) IN
    IF guard = "raise" THEN [raised |-> TRUE, value |-> "none"]
    ELSE IF guard = "true" THEN [raised |-> FALSE, value |-> "zero"]
    ELSE IF o = "raise" THEN [raised |-> TRUE, value |-> "none"]
    ELSE IF o = "nan" THEN [raised |-> FALSE, value |-> "zero"]
    ELSE [raised |-> FALSE, value |-> o]

\* analyzer.py:59-69: the bare except turns every exception into return 0.
\* The result is what the caller sees.
black_scholes_gamma(S, K, T, sigma, o) ==
    IF gamma_try_block(S, K, T, sigma, o).raised
    THEN [raised |-> FALSE, value |-> "zero"]
    ELSE gamma_try_block(S, K, T, sigma, o)

\* A call of black_scholes_gamma about to be made.
GammaInit ==
    /\ AnalyzeInit
    /\ DeskIdle
    /\ ScanIdle
    /\ call \in {[fn |-> "black_scholes_gamma", done |-> FALSE,
                  S |-> S, K |-> K, T |-> T, sigma |-> sigma] :
                     S \in GammaArgs, K \in GammaArgs, T \in GammaArgs, sigma \in GammaArgs}

\* analyzer.py:59-69
CallBlackScholesGamma ==
    /\ call.fn = "black_scholes_gamma"
    /\ ~call.done
    /\ \E o \in gamma_arithmetic(call.S, call.K, call.T, call.sigma) :
          call' = [call EXCEPT !.done = TRUE] @@
                  [out |-> black_scholes_gamma(call.S, call.K, call.T, call.sigma, o)]
    /\ UNCHANGED <<analyzeVars, scanVars, deskVars>>

SpecGamma == GammaInit /\ [][CallBlackScholesGamma]_vars

-----------------------------------------------------------------------------
(* find_gamma_flip called on its own                                       *)

FlipStrikes == {95, 100, 105, 110}
CumulativeValues == {-2, 0, 1, 3}
FlipPrices == {100, 101}

\* The strike tables find_gamma_flip is handed: rows ascending by strike (the
\* caller sorts, analyzer.py:262), of which the walk reads the strike and the
\* running sum.  The empty table is among them.
FlipTables ==
    UNION {LET ks == SetToSortedSeq(S)
           IN  {[i \in 1 .. Len(ks) |-> [strike |-> ks[i], cumulative_gex |-> c[ks[i]]]] :
                    c \in [S -> CumulativeValues]} : S \in SUBSET FlipStrikes}

FlipInit ==
    /\ AnalyzeInit
    /\ DeskIdle
    /\ ScanIdle
    /\ call \in {[fn |-> "find_gamma_flip", done |-> FALSE, df |-> df, current_price |-> cp] :
                     df \in FlipTables, cp \in FlipPrices}

\* analyzer.py:314-334
CallFindGammaFlip ==
    /\ call.fn = "find_gamma_flip"
    /\ ~call.done
    /\ call' = [call EXCEPT !.done = TRUE] @@
                [out |-> find_gamma_flip(call.df, call.current_price)]
    /\ UNCHANGED <<analyzeVars, scanVars, deskVars>>

SpecFlip == FlipInit /\ [][CallFindGammaFlip]_vars

-----------------------------------------------------------------------------
(* calculate_dealer_pain called on its own                                 *)

PainNetGex == {-70, -30, 0, 20}
PainPrices == {100, 103}

PainRow(k, g, v) ==
    [strike |-> k, call_gex |-> g[1], put_gex |-> g[2], call_oi |-> 100, put_oi |-> 100,
     call_volume |-> v, put_volume |-> v]

\* Strike tables as calculate_gex_profile builds them (analyzer.py:212-262):
\* three strikes, the gamma at 100 small or large against the gamma at the
\* other two, the volume none or equal to the open interest.
PainGex == {<<0, 0>>, <<5, -5>>, <<40, -20>>}
PainTables ==
    {<<PainRow(95, lo, v), PainRow(100, mid, v), PainRow(105, hi, v)>> :
        lo \in PainGex, mid \in PainGex, hi \in PainGex, v \in {0, 100}}

PainInit ==
    /\ AnalyzeInit
    /\ DeskIdle
    /\ ScanIdle
    /\ call \in {[fn |-> "calculate_dealer_pain", done |-> FALSE, net_gex |-> g,
                  distance_to_flip |-> d, strike_df |-> df, current_price |-> cp] :
                     g \in PainNetGex, d \in Distances, df \in PainTables, cp \in PainPrices}

\* analyzer.py:276-278: mm_behavior as analyze_market_maker_behavior builds it
\* from the strike table, then calculate_dealer_pain (analyzer.py:441-459).
CallDealerPain ==
    /\ call.fn = "calculate_dealer_pain"
    /\ ~call.done
    /\ \E mmb \in {analyze_market_maker_behavior(call.strike_df, call.current_price)} :
          call' = [call EXCEPT !.done = TRUE] @@
                  [out |-> calculate_dealer_pain(call.net_gex, call.distance_to_flip, mmb)]
    /\ UNCHANGED <<analyzeVars, scanVars, deskVars>>

SpecPain == PainInit /\ [][CallDealerPain]_vars

-----------------------------------------------------------------------------
(* determine_mm_status called twice in a row                               *)

StatusNetGex == {0, 30, 31}
StatusPains == {0, 60, 61, 80, 81, 100}
StatusDistances == {Frac(0, 1), Frac(-9, 10), Frac(1, 1), Frac(1, 0), Frac(0, 0)}
StatusArgs ==
    {[net_gex |-> g, dealer_pain |-> p, distance_to_flip |-> d] :
        g \in StatusNetGex, p \in StatusPains, d \in StatusDistances}

\* Two calls on one analyzer about to be made, each with its own arguments.
StatusInit ==
    /\ AnalyzeInit
    /\ DeskIdle
    /\ ScanIdle
    /\ call \in {[fn |-> "determine_mm_status", done |-> FALSE, args |-> <<a1, a2>>,
                  out |-> <<>>] : a1 \in StatusArgs, a2 \in StatusArgs}

\* analyzer.py:461-472: the next of the two calls; the method reads its three
\* arguments and nothing else.
CallDetermineMmStatus ==
    /\ call.fn = "determine_mm_status"
    /\ ~call.done
    /\ LET a == call.args[Len(call.out) + 1]
       IN  call' = [call EXCEPT
                       !.out = Append(@, determine_mm_status(a.net_gex, a.dealer_pain,
                                                             a.distance_to_flip)),
                       !.done = (Len(call.out) + 1 = Len(call.args))]
    /\ UNCHANGED <<analyzeVars, scanVars, deskVars>>

SpecStatus == StatusInit /\ [][CallDetermineMmStatus]_vars

-----------------------------------------------------------------------------
(* calculate_flow_toxicity called on its own                               *)

Ladder(lo, n, oi, v) ==
    [i \in 1 .. n |-> [strike |-> lo + i - 1, openInterest |-> oi, volume |-> v]]

\* One expiration: no calls, one call at 100, or a call at 100 and eleven
\* from 120 to 130; no puts, one put at 100, or eleven from 70 to 80.
ToxicCalls(oi, v) == {<<>>, Ladder(100, 1, oi, v), Ladder(100, 1, oi, v) \o Ladder(120, 11, oi, v)}
ToxicPuts(oi, v) == {<<>>, Ladder(100, 1, oi, v), Ladder(70, 11, oi, v)}
ToxicChains ==
    {[calls |-> c, puts |-> p, dte |-> d] :
        c \in ToxicCalls(100, 0) \cup ToxicCalls(2000, 0)
              \cup ToxicCalls(100, 100) \cup ToxicCalls(2000, 100),
        p \in ToxicPuts(100, 0) \cup ToxicPuts(2000, 100),
        d \in {3, 9}}
FurtherChains ==
    {<<>>, <<[calls |-> Ladder(100, 1, 100, 100), puts |-> Ladder(70, 11, 100, 100), dte |-> 9]>>}

\* The spot price of the snapshot the chains belong to, and the wall clock.
ToxicSpots == {100, 125}
ToxicClocks ==
    {[hour |-> 9, minute |-> 0], [hour |-> 9, minute |-> 45], [hour |-> 10, minute |-> 45],
     [hour |-> 12, minute |-> 0], [hour |-> 15, minute |-> 30], [hour |-> 16, minute |-> 30]}

\* analyzer.py:213-220: the volume of all rows of all expirations.
total_options_volume(chains) ==
    SeqSum([c \in 1 .. Len(chains) |->
               SeqSum(Column(chains[c].calls, "volume"))
               + SeqSum(Column(chains[c].puts, "volume"))])

ToxicityInit ==
    /\ AnalyzeInit
    /\ DeskIdle
    /\ ScanIdle
    /\ call \in {[fn |-> "calculate_flow_toxicity", done |-> FALSE, chains |-> <<c>> \o f,
                  current_price |-> cp, now |-> t] :
                     c \in ToxicChains, f \in FurtherChains, cp \in ToxicSpots,
                     t \in ToxicClocks}

\* analyzer.py:277 with 390-439: the call as calculate_gex_profile makes it.
CallFlowToxicity ==
    /\ call.fn = "calculate_flow_toxicity"
    /\ ~call.done
    /\ \E tv \in {total_options_volume(call.chains)} :
          call' = [call EXCEPT !.done = TRUE] @@
                  [total_volume |-> tv,
                   out |-> calculate_flow_toxicity(call.chains, tv, call.now.hour)]
    /\ UNCHANGED <<analyzeVars, scanVars, deskVars>>

SpecToxicity == ToxicityInit /\ [][CallFlowToxicity]_vars

-----------------------------------------------------------------------------
(* generate_all_signals called on a profile of the caller's making         *)

SignalNetGex == {-15, -7, 0, 5, 15, 31, 35}
SignalPains == {0, 61, 71, 100}
SignalDistances == {Frac(0, 1), Frac(-2, 5), Frac(5, 1), Frac(20, 1), Frac(0, 0)}
SignalPrices == {100}

CallWall(k, g) == [strike |-> k, call_gex |-> g]
PutWall(k, g) == [strike |-> k, put_gex |-> g]

\* call_walls and put_walls as nlargest and nsmallest leave them
\* (analyzer.py:266-267): strongest first, wherever the strikes lie.
SignalCallWalls ==
    {<<>>, <<CallWall(103, 40)>>, <<CallWall(101, 40)>>,
     <<CallWall(110, 40), CallWall(102, 5)>>, <<CallWall(110, 40), CallWall(101, 5)>>,
     <<CallWall(95, 40), CallWall(104, 5)>>}
SignalPutWalls ==
    {<<>>, <<PutWall(97, -20)>>, <<PutWall(99, -20)>>, <<PutWall(92, -20)>>,
     <<PutWall(90, -20), PutWall(98, -5)>>}

SignalProfiles ==
    {[net_gex |-> g, dealer_pain |-> dp, distance_to_flip |-> d, current_price |-> cp,
      call_walls |-> cw, put_walls |-> pw] :
        g \in SignalNetGex, dp \in SignalPains, d \in SignalDistances, cp \in SignalPrices,
        cw \in SignalCallWalls, pw \in SignalPutWalls}

SignalsInit ==
    /\ AnalyzeInit
    /\ DeskIdle
    /\ ScanIdle
    /\ call \in {[fn |-> "generate_all_signals", done |-> FALSE, gex_profile |-> p,
                  symbol |-> sym] : p \in SignalProfiles, sym \in Symbols}

\* analyzer.py:474-548: the call, with what the three families returned to it.
CallGenerateAllSignals ==
    /\ call.fn = "generate_all_signals"
    /\ ~call.done
    /\ call' = [call EXCEPT !.done = TRUE] @@
                [squeeze_signals |-> generate_squeeze_signals(call.gex_profile, call.symbol),
                 premium_signals |-> generate_premium_signals(call.gex_profile),
                 condor_signals  |-> generate_condor_signals(call.gex_profile),
                 out |-> generate_all_signals(<<call.gex_profile>>, call.symbol)]
    /\ UNCHANGED <<analyzeVars, scanVars, deskVars>>

SpecSignals == SignalsInit /\ [][CallGenerateAllSignals]_vars

-----------------------------------------------------------------------------
(* The position manager (position_manager.py). Prices are whole dollars,   *)
(* the clock counts half hours, and a position keeps the fields the        *)
(* bookkeeping reads: id, strategy, entry_price, current_price,            *)
(* pnl_percent, entry_time, status, target_price and stop_price, to which  *)
(* close_position adds exit_price, exit_time and close_reason.             *)

MaxPositions == 2

\* A price the code treats as present: `if current_price:` and
\* `position['target_price'] and ...` are false for None and for 0.
price_given(x) == x # <<>> /\ x[1] # 0

\* position_manager.py:50-62: a dollar target and a percent target both yield
\* their number, anything else None.
extract_price_from_target(target) ==
    IF target.kind \in {"dollar", "percent"} THEN <<target.value>> ELSE <<>>

\* position_manager.py:64-73: only a dollar stop yields its number.
extract_price_from_stop(stop) ==
    IF stop.kind = "dollar" THEN <<stop.value>> ELSE <<>>

\* position_manager.py:89-90 and 137-138, exact for the entry prices drawn.
pnl_percent(price, entry_price) == ((price - entry_price) * 100) \div entry_price

\* position_manager.py:131-143
close_position(position, exit_price, close_reason, now) ==
    [status |-> "CLOSED", exit_price |-> exit_price, exit_time |-> now,
     close_reason |-> close_reason] @@ position

\* position_manager.py:92-117: the reason update_positions closes a position
\* for at this price and time, "" when it keeps it open. The time exit is
\* tested last and replaces any earlier reason.
auto_close_reason(position, current_price, now) ==
    LET by_price ==
            IF /\ price_given(position.target_price)
               /\ current_price >= position.target_price[1] THEN "TARGET HIT"
            ELSE IF /\ price_given(position.stop_price)
                    /\ current_price <= position.stop_price[1] THEN "STOP HIT"
            ELSE IF position.strategy \in {"SQUEEZE_PLAY", "PREMIUM_SELLING"}
                 THEN IF position.pnl_percent >= 100 THEN "100% PROFIT"
                      ELSE IF position.pnl_percent =< -50 THEN "50% LOSS"
                      ELSE ""
            ELSE ""
    IN  IF position.strategy = "SQUEEZE_PLAY" /\ (now - position.entry_time) > 24 * 2
        THEN "TIME EXIT (24H)"
        ELSE by_price

\* position_manager.py:81-121: what one pass of the loop makes of a position
\* when get_current_price returned `price` for it.
updated_position(position, price, now) ==
    IF position.status = "OPEN" /\ price_given(price)
    THEN LET marked == [position EXCEPT
                          !.current_price = price[1],
                          !.pnl_percent = pnl_percent(price[1], position.entry_price)]
             reason == auto_close_reason(marked, price[1], now)
         IN  IF reason # "" THEN close_position(marked, price[1], reason, now)
             ELSE marked
    ELSE position

\* list.remove: the list without its first element equal to x.
RECURSIVE list_remove(_, _)
list_remove(list, x) ==
    IF list = <<>> THEN <<>>
    ELSE IF Head(list) = x THEN Tail(list)
    ELSE <<Head(list)>> \o list_remove(Tail(list), x)

\* A removal loop that files each closed position in the history and leaves
\* the active list as it is.
move_closed_without_removal(lists, closed) == <<lists[1], lists[2] \o closed>>

\* position_manager.py:123-127: the removal loop over the positions this call
\* closed; lists is <<positions, closed_positions>>.
RECURSIVE move_closed(_, _)
move_closed(lists, closed) ==
    IF closed = <<>> THEN lists
    ELSE IF \E i \in 1 .. Len(lists[1]) : lists[1][i] = Head(closed)
         THEN move_closed(<<list_remove(lists[1], Head(closed)),
                            Append(lists[2], Head(closed))>>, Tail(closed))
         ELSE move_closed(lists, Tail(closed))

\* What callers pass add_position (main.py:389-395, ui_components.py:158-164
\* and 418-424): the signal's type as the strategy and its target and stop.
PositionSignals ==
    {[strategy |-> "SQUEEZE_PLAY", target |-> [kind |-> "none", value |-> 0],
      stop |-> [kind |-> "none", value |-> 0]],
     [strategy |-> "IRON_CONDOR", target |-> [kind |-> "dollar", value |-> 150],
      stop |-> [kind |-> "dollar", value |-> 80]],
     [strategy |-> "PREMIUM_SELLING", target |-> [kind |-> "percent", value |-> 50],
      stop |-> [kind |-> "none", value |-> 0]]}

\* The entry prices the callers pass (the spot they have just divided by).
EntryPrices == {100}

\* What get_current_price returns: None or a price.
PositionPrices == {<<>>, <<40>>, <<100>>, <<200>>}

\* The times at which the operations are called: at once and a day and half
\* an hour later.
PositionTimes == {0, 49}

\* position_manager.py:21-49
AddPosition ==
    /\ position_counter < MaxPositions
    /\ \E signal_data \in PositionSignals, entry_price \in EntryPrices :
          /\ position_counter' = position_counter + 1
          /\ positions' = Append(positions,
                [id |-> position_counter + 1,
                 strategy |-> signal_data.strategy,
                 entry_price |-> entry_price,
                 current_price |-> entry_price,
                 entry_time |-> clock,
                 status |-> "OPEN",
                 pnl_percent |-> 0,
                 target_price |-> extract_price_from_target(signal_data.target),
                 stop_price |-> extract_price_from_stop(signal_data.stop)])
    /\ UNCHANGED <<closed_positions, clock, autoVars>>
    /\ UNCHANGED <<analyzeVars, scanVars, call>>

\* position_manager.py:75-129: the whole call, the loop over the active list
\* and then the removal loop.
UpdatePositions ==
    /\ positions # <<>>
    /\ \E prices \in [1 .. Len(positions) -> PositionPrices] :
          LET after == [i \in 1 .. Len(positions) |->
                          updated_position(positions[i], prices[i], clock)]
              closed_now == SelectSeq([i \in 1 .. Len(positions) |-> i],
                                      LAMBDA i : /\ positions[i].status = "OPEN"
                                                 /\ after[i].status = "CLOSED")
              closed == [k \in 1 .. Len(closed_now) |-> after[closed_now[k]]]
              moved == move_closed(<<after, closed_positions>>, closed)
          IN  /\ positions' = moved[1]
              /\ closed_positions' = moved[2]
    /\ UNCHANGED <<position_counter, clock, autoVars>>
    /\ UNCHANGED <<analyzeVars, scanVars, call>>

\* position_manager.py:145-154: closes the first open position with this id
\* for which a price comes back; the ids asked for include ones never handed
\* out and ones already closed.
ManualClosePosition ==
    /\ \E position_id \in 0 .. MaxPositions,
          prices \in [1 .. Len(positions) -> PositionPrices] :
          LET hits == {i \in 1 .. Len(positions) :
                          /\ positions[i].id = position_id
                          /\ positions[i].status = "OPEN"
                          /\ price_given(prices[i])}
          IN  IF hits = {} THEN UNCHANGED <<positions, closed_positions>>
              ELSE LET i == CHOOSE h \in hits : \A g \in hits : h =< g
                       position == close_position(positions[i], prices[i][1],
                                                  "MANUAL CLOSE", clock)
                   IN  /\ positions' = list_remove([positions EXCEPT ![i] = position],
                                                   position)
                       /\ closed_positions' = Append(closed_positions, position)
    /\ UNCHANGED <<position_counter, clock, autoVars>>
    /\ UNCHANGED <<analyzeVars, scanVars, call>>

\* Time passes between two operations.
PositionsPassTime ==
    /\ \E t \in PositionTimes : t > clock /\ clock' = t
    /\ UNCHANGED <<managerVars, autoVars>>
    /\ UNCHANGED <<analyzeVars, scanVars, call>>

PositionsNext ==
    \/ AddPosition
    \/ UpdatePositions
    \/ ManualClosePosition
    \/ PositionsPassTime

SpecPositions == Init /\ [][PositionsNext]_vars

-----------------------------------------------------------------------------
(* The analyzer's auto scan (analyzer.py:841-875). The clock counts half   *)
(* hours from midnight of the first day; confidence is in hundredths.      *)

auto_scan_interval == 2

MaxAutoCalls == 3

\* datetime.hour of a clock reading.
hour_of(t) == (t \div 2) % 24

\* analyzer.py:846
outside_scan_hours(current_time) ==
    hour_of(current_time) < 9 \/ hour_of(current_time) >= 16

\* analyzer.py:849-852: a scan is on record and fewer than auto_scan_interval
\* hours have passed since it started.
scanned_recently(current_time, last) ==
    last # <<>> /\ (current_time - last[1]) < auto_scan_interval * 2

\* analyzer.py:856-863: of the first ten results, those with a profile and a
\* best signal whose dealer pain or confidence is high.
high_value_opportunities(scan_results, min_conf) ==
    SelectSeq(SubSeq(scan_results, 1, Min(10, Len(scan_results))),
              LAMBDA r : /\ r.gex_profile # <<>>
                         /\ r.best_signal # <<>>
                         /\ \/ r.gex_profile[1].dealer_pain > 70
                            \/ r.best_signal[1].confidence > min_conf)

\* Alerts for all the opportunities found.
alerts_for_all(scan_results, min_conf) ==
    high_value_opportunities(scan_results, min_conf)

\* analyzer.py:865-873 and 742-771: the first three opportunities are
\* alerted; format_discord_alert has a message for each, as each has a
\* profile and a signal.
alerts_sent(scan_results, min_conf) ==
    LET found == high_value_opportunities(scan_results, min_conf)
    IN  SubSeq(found, 1, Min(3, Len(found)))

\* analyzer.py:796-814: one entry of what scan_multiple_symbols returns.
AutoResult(dealer_pain, confidence) ==
    [gex_profile |-> <<[dealer_pain |-> dealer_pain]>>,
     best_signal |-> <<[confidence |-> confidence]>>]

NoDataResult == [gex_profile |-> <<>>, best_signal |-> <<>>]

Copies(x, n) == [i \in 1 .. n |-> x]

\* Lists scan_multiple_symbols can return, sorted by dealer pain and then
\* confidence, highest first (analyzer.py:833-836): nothing; symbols without
\* data; one painful, one confident, one dull symbol and one without data;
\* four painful ones; ten dull ones ahead of two confident ones.
AutoScanResults ==
    {<<>>,
     Copies(NoDataResult, 2),
     <<AutoResult(80, 6000), AutoResult(50, 9000), AutoResult(40, 6000), NoDataResult>>,
     Copies(AutoResult(90, 7000), 4),
     Copies(AutoResult(50, 5000), 10) \o Copies(AutoResult(40, 9000), 2)}

\* The min_confidence argument (the default).
AutoMinConfidences == {6500}

\* How long the scan and its alerts take, in half hours.
AutoScanDurations == {0, 1}

\* When auto_scan_and_alert is called: 8:30, 9:00, 10:30, 11:00, 15:30 and
\* 16:00 of the first day and 9:00 of the next.
AutoTimes == {17, 18, 21, 22, 31, 32, 66}

\* analyzer.py:841-875
AutoScanAndAlert ==
    /\ Len(auto_log) < MaxAutoCalls
    /\ \E scan_results \in AutoScanResults, min_conf \in AutoMinConfidences,
          duration \in AutoScanDurations :
          LET current_time == clock
          IN  IF \/ outside_scan_hours(current_time)
                 \/ scanned_recently(current_time, last_auto_scan)
              THEN /\ auto_log' = Append(auto_log,
                          [at |-> current_time, scanned |-> FALSE, alerts |-> 0])
                   /\ UNCHANGED <<last_auto_scan, clock>>
              ELSE /\ auto_log' = Append(auto_log,
                          [at |-> current_time, scanned |-> TRUE,
                           alerts |-> Len(alerts_sent(scan_results, min_conf))])
                   /\ last_auto_scan' = <<current_time>>
                   /\ clock' = clock + duration
    /\ UNCHANGED managerVars
    /\ UNCHANGED <<analyzeVars, scanVars, call>>

\* Time passes until the next call.
AutoPassTime ==
    /\ \E t \in AutoTimes : t > clock /\ clock' = t
    /\ UNCHANGED <<managerVars, autoVars>>
    /\ UNCHANGED <<analyzeVars, scanVars, call>>

AutoNext ==
    \/ AutoScanAndAlert
    \/ AutoPassTime

SpecAuto == Init /\ [][AutoNext]_vars

-----------------------------------------------------------------------------
(* Properties of the analysis pipeline, checked under Spec                 *)

Profiled == pc \in {"profiled", "signalled"}

\* C1: generate_all_signals never returns an empty sequence, whatever the
\* profile (present or absent) and the symbol.
C1_SignalsNeverEmpty == pc = "signalled" => Len(signals) >= 1

\* The fallback branch ran: a profile was present and no family fired.
C1_Witness ==
    /\ pc = "signalled"
    /\ gex_profile # <<>>
    /\ family_signals(gex_profile[1], symbol) = <<>>
    /\ Len(signals) = 1

\* The place of a family signal in the emission order of generate_all_signals.
EmissionRank(sig) ==
    CASE sig.direction = "BUY CALLS"   -> 1
      [] sig.direction = "BUY PUTS"    -> 2
      [] sig.direction = "SELL CALLS"  -> 3
      [] sig.direction = "SELL PUTS"   -> 4
      [] sig.direction = "SELL CONDOR" -> 5
      [] OTHER -> 6

\* C2: the returned sequence is ordered by non-increasing confidence and two
\* signals of equal confidence keep their family emission order.
C2_SortedStable ==
    pc = "signalled" =>
        \A i, j \in 1 .. Len(signals) :
            i < j =>
                \/ signals[i].confidence > signals[j].confidence
                \/ /\ signals[i].confidence = signals[j].confidence
                   /\ EmissionRank(signals[i]) < EmissionRank(signals[j])

\* Two families tie and a third signal follows them.
C2_Witness ==
    /\ pc = "signalled"
    /\ Len(signals) >= 3
    /\ \E i \in 1 .. Len(signals) - 1 :
          /\ signals[i].confidence = signals[i + 1].confidence
          /\ signals[i].type # signals[i + 1].type

\* C3: every confidence generate_all_signals returns lies in [0, 100]
\* (0 .. 10000 hundredths).
C3_ConfidenceBounded ==
    pc = "signalled" =>
        \A i \in 1 .. Len(signals) :
            signals[i].confidence >= 0 /\ signals[i].confidence <= 10000

\* A wall so strong that the uncapped sell-calls blend would pass 100.
C3_Witness ==
    /\ pc = "signalled"
    /\ \E i \in 1 .. Len(signals) :
          /\ signals[i].direction = "SELL CALLS"
          /\ signals[i].confidence = 8000
          /\ gex_profile[1].call_walls[1].call_gex * 200 + 6000 > 10000

\* C4: for a non-empty strike table gamma_flip lies within
\* [min(strike), max(strike)].
C4_FlipWithinStrikes ==
    (Profiled /\ gex_profile # <<>>) =>
        LET p  == gex_profile[1]
            df == p.strike_data
        IN  /\ p.gamma_flip.d > 0
            /\ df[1].strike * p.gamma_flip.d <= p.gamma_flip.n
            /\ p.gamma_flip.n <= df[Len(df)].strike * p.gamma_flip.d

\* An interpolated flip strictly between two strikes.
C4_Witness ==
    /\ Profiled
    /\ gex_profile # <<>>
    /\ gex_profile[1].gamma_flip.n % gex_profile[1].gamma_flip.d # 0

RECURSIVE SumOfColumn(_, _)
SumOfColumn(df, col) ==
    IF df = <<>> THEN 0 ELSE Head(df)[col] + SumOfColumn(Tail(df), col)

\* C5: net_gex = total_call_gex + total_put_gex, the totals are the column
\* sums of the strike table, and cumulative_gex of the last row is net_gex.
C5_TotalsAgree ==
    (Profiled /\ gex_profile # <<>>) =>
        LET p  == gex_profile[1]
            df == p.strike_data
        IN  /\ p.net_gex = p.total_call_gex + p.total_put_gex
            /\ p.total_call_gex = SumOfColumn(df, "call_gex")
            /\ p.total_put_gex = SumOfColumn(df, "put_gex")
            /\ df[Len(df)].cumulative_gex = p.net_gex

\* Two expirations aggregated, calls and puts both present, net not zero.
C5_Witness ==
    /\ Profiled
    /\ gex_profile # <<>>
    /\ Len(options_data[1].chains) >= 2
    /\ Len(gex_profile[1].strike_data) >= 2
    /\ gex_profile[1].total_call_gex > 0
    /\ gex_profile[1].total_put_gex < 0
    /\ gex_profile[1].net_gex # 0

\* The snapshot is absent or has no expirations.
NoChainData == options_data = <<>> \/ options_data[1].chains = <<>>

\* C6: without chain data calculate_gex_profile returns None, and
\* generate_all_signals on that absent profile returns exactly one signal,
\* of type WAIT with confidence 0.
C6_NoDataGivesWait ==
    (Profiled /\ NoChainData) =>
        /\ gex_profile = <<>>
        /\ pc = "signalled" =>
              /\ Len(signals) = 1
              /\ signals[1].type = "WAIT"
              /\ signals[1].confidence = 0

\* A snapshot that is present but has no expirations went through both calls.
C6_Witness ==
    /\ pc = "signalled"
    /\ options_data # <<>>
    /\ options_data[1].chains = <<>>

\* The snapshot has expirations and a spot that is missing, zero or negative.
InvalidSpot ==
    /\ options_data # <<>>
    /\ options_data[1].chains # <<>>
    /\ \/ options_data[1].current_price = <<>>
       \/ options_data[1].current_price[1] <= 0

\* C7: with an invalid spot price calculate_gex_profile returns None, never
\* a profile computed from that spot.
C7_InvalidSpotGivesNone == (Profiled /\ InvalidSpot) => gex_profile = <<>>

-----------------------------------------------------------------------------
(* Properties of the batch scans, checked under SpecScan                   *)

Returned == scan_pc = "returned"

\* The task of a submitted symbol failed: its processing raised (the analyzer's
\* task returned None, the scanner's an error dict) or no profile was obtained.
Failed(f) ==
    \/ f.result = <<>>
    \/ "error" \in DOMAIN f.result[1]
    \/ f.result[1].gex_profile = <<>>

\* The positions of the caller's symbols among the submitted tasks.
InputTasks == 1 .. Len(scan_input)

InputSymbols == {scan_input[i] : i \in InputTasks}

NonFailingInputSymbols == {scan_input[i] : i \in {j \in InputTasks : ~Failed(futures[j])}}

\* The returned list has exactly one entry for each symbol of S and no other.
OneEntryEach(S) ==
    /\ Len(results) = Cardinality(S)
    /\ {results[i].symbol : i \in 1 .. Len(results)} = S

\* C8: when a batch in which some symbols fail has returned, the returned list
\* has exactly one entry per non-failing input symbol, or exactly one entry
\* per input symbol (failing symbols kept as placeholders).
C8_OneEntryPerSymbol ==
    (Returned /\ \E i \in InputTasks : Failed(futures[i]))
        => (OneEntryEach(NonFailingInputSymbols) \/ OneEntryEach(InputSymbols))

\* The entry x carries a WAIT signal of confidence 0.
CarriesWait(x) ==
    \E k \in 1 .. Len(x.signals) :
        x.signals[k].type = "WAIT" /\ x.signals[k].confidence = 0

\* C9: when a scan has returned, every input symbol whose task failed has an
\* entry in the returned list that carries a WAIT signal of confidence 0.
C9_FailedSymbolsAppearAsWait ==
    Returned =>
        \A i \in InputTasks :
            Failed(futures[i]) =>
                \E j \in 1 .. Len(results) :
                    /\ results[j].symbol = scan_input[i]
                    /\ "signals" \in DOMAIN results[j]
                    /\ CarriesWait(results[j])

ScannerReturned == scan_kind = "scanner" /\ Returned

\* dealer_pain of a returned entry, 0 for an entry without a profile (the
\* entry of a symbol without data, or an error entry whose text is empty)
PainOf(x) ==
    IF "gex_profile" \in DOMAIN x /\ x.gex_profile # <<>>
    THEN x.gex_profile[1].dealer_pain ELSE 0

\* C10 (as amended): the list the scanner returns is ordered by descending
\* mm_vulnerability, ties broken by descending opportunity_score: no entry is
\* followed by one with a greater (mm_vulnerability, opportunity_score).
C10_SortedByVulnerabilityThenScore ==
    ScannerReturned =>
        \A i \in 1 .. Len(results) - 1 :
            ~LexGt(<<results[i + 1].mm_vulnerability, results[i + 1].opportunity_score>>,
                   <<results[i].mm_vulnerability, results[i].opportunity_score>>)

\* The scanner has returned a list in which an entry of greater vulnerability
\* and smaller score precedes another, and two entries tie on vulnerability.
C10_Witness ==
    /\ ScannerReturned
    /\ \E i \in 1 .. Len(results) - 1 :
          /\ results[i].mm_vulnerability > results[i + 1].mm_vulnerability
          /\ results[i].opportunity_score < results[i + 1].opportunity_score
    /\ \E i \in 1 .. Len(results) - 1 :
          /\ results[i].mm_vulnerability = results[i + 1].mm_vulnerability
          /\ results[i].opportunity_score > results[i + 1].opportunity_score

\* C10 (as stated): the list the scanner returns is ordered by descending
\* opportunity_score, ties broken by descending dealer_pain.
C10_SortedByScoreThenPain ==
    ScannerReturned =>
        \A i \in 1 .. Len(results) - 1 :
            ~LexGt(<<results[i + 1].opportunity_score, PainOf(results[i + 1])>>,
                   <<results[i].opportunity_score, PainOf(results[i])>>)

-----------------------------------------------------------------------------
(* Properties of single methods, checked under SpecScore and the like      *)

Scored == call.fn = "calculate_opportunity_score" /\ call.done

\* |a| <= |b| on floats (false when either is NaN)
NoFarther(a, b) == ~IsNaN(a) /\ ~IsNaN(b) /\ ~FracLt(FracAbs(b), FracAbs(a))

\* e2 has every special-event window that e1 has.
WindowsOf(e) ==
    {w \in {"opex", "quad", "friday"} :
        \/ w = "opex" /\ e.opex_week
        \/ w = "quad" /\ e.quad_month /\ e.opex_week
        \/ w = "friday" /\ e.friday_pm}

\* C11: calculate_opportunity_score returns a value in [0, 100], and raising
\* mm_vulnerability, dealer_pain or the best confidence, moving closer to the
\* flip, or turning on special-event windows, each with the other arguments
\* fixed, never lowers the returned score.
C11_ScoreBoundedMonotonic ==
    Scored =>
        LET gp == call.gex_profile
            sigs == call.signals
            v == call.mm_vulnerability
            e == call.env
        IN  /\ call.out >= 0 /\ call.out <= 100000
            /\ \A v2 \in Vulnerabilities :
                  v2 >= v => calculate_opportunity_score(gp, sigs, v2, e) >= call.out
            /\ \A e2 \in Clocks :
                  WindowsOf(e) \subseteq WindowsOf(e2)
                      => calculate_opportunity_score(gp, sigs, v, e2) >= call.out
            /\ \A s2 \in ScoredSignals :
                  (sigs # <<>> /\ s2 # <<>> /\ s2[1].confidence >= sigs[1].confidence)
                      => calculate_opportunity_score(gp, s2, v, e) >= call.out
            /\ \A g2 \in ScoredProfiles :
                  (/\ gp # <<>> /\ g2 # <<>>
                   /\ \/ /\ g2[1].dealer_pain >= gp[1].dealer_pain
                         /\ g2[1].distance_to_flip = gp[1].distance_to_flip
                      \/ /\ g2[1].dealer_pain = gp[1].dealer_pain
                         /\ NoFarther(g2[1].distance_to_flip, gp[1].distance_to_flip))
                      => calculate_opportunity_score(g2, sigs, v, e) >= call.out

\* A call whose weighted sum (103) exceeds 100, and which returns 100.
C11_Witness ==
    /\ Scored
    /\ call.gex_profile # <<>>
    /\ call.mm_vulnerability = 100
    /\ call.gex_profile[1].dealer_pain = 100
    /\ call.signals # <<>> /\ call.signals[1].confidence = 10000
    /\ call.env.opex_week /\ call.env.quad_month /\ call.env.friday_pm
    /\ call.out = 100000

-----------------------------------------------------------------------------
(* Properties of the scan entries, checked under SpecScan                  *)

\* The entries that finished tasks built for symbols whose profile was built.
ProfiledEntries ==
    {futures[i].result[1] :
        i \in {j \in 1 .. Len(futures) :
                  /\ futures[j].state # "pending"
                  /\ futures[j].result # <<>>
                  /\ "gex_profile" \in DOMAIN futures[j].result[1]
                  /\ futures[j].result[1].gex_profile # <<>>}}

\* The signals generate_all_signals yields for the profile of entry x.
GeneratedFor(x) == generate_all_signals(x.gex_profile, x.symbol)

\* Those of them whose confidence is at least min_confidence.
KeptFor(x) == SelectSeq(GeneratedFor(x), LAMBDA g : g.confidence >= min_confidence)

\* C12: the signals of an entry with a profile are the generated signals of
\* confidence >= min_confidence when there is one, and all generated signals
\* otherwise; they are non-empty, in non-increasing confidence order, and
\* best_signal is their first element.
C12_SignalsFilteredOrComplete ==
    \A x \in ProfiledEntries :
        /\ x.signals = IF KeptFor(x) # <<>> THEN KeptFor(x) ELSE GeneratedFor(x)
        /\ x.signals # <<>>
        /\ \A k \in 1 .. Len(x.signals) - 1 :
              x.signals[k].confidence >= x.signals[k + 1].confidence
        /\ x.best_signal = <<x.signals[1]>>

\* One entry keeps a proper, non-empty part of its generated signals and
\* another, none of whose signals qualifies, keeps them all; both scans occur.
C12_Witness ==
    /\ \E x \in ProfiledEntries :
          KeptFor(x) # <<>> /\ KeptFor(x) # GeneratedFor(x) /\ x.signals = KeptFor(x)
    /\ \E x \in ProfiledEntries :
          KeptFor(x) = <<>> /\ x.signals = GeneratedFor(x)

AnalyzedTwice == call.fn = "analyze_twice" /\ call.done

GammaCalled == call.fn = "black_scholes_gamma" /\ call.done

\* C14: black_scholes_gamma returns exactly 0 whenever T <= 0, sigma <= 0,
\* spot <= 0 or strike <= 0, and no call lets an exception reach the caller.
C14_GammaZeroOnDegenerate ==
    GammaCalled =>
        /\ ~call.out.raised
        /\ ({call.S, call.K, call.T, call.sigma} \cap {"neg", "zero"} # {}
               => call.out.value = "zero")

\* A call whose T is not a number (the guard raises TypeError) and whose
\* sigma is negative returned 0.
C14_Witness ==
    /\ GammaCalled
    /\ call.T = "none" /\ call.sigma = "neg" /\ call.S = "pos" /\ call.K = "pos"
    /\ call.out.value = "zero"

-----------------------------------------------------------------------------
(* Properties of the scan's threads, checked under SpecScan                *)

\* The coordinator keeps the result of task f.
Kept(f) ==
    IF scan_kind = "scanner" THEN scanner_keeps(f.result) ELSE analyzer_keeps(f.result)

\* The entries of the results list that equal the result of task f.
EntriesOf(f) == {j \in 1 .. Len(results) : f.result # <<>> /\ results[j] = f.result[1]}

\* Every collected task whose result the coordinator keeps has exactly one
\* entry, no other task has any, and the counter counts the collected tasks.
EachResultOnce ==
    /\ \A i \in 1 .. Len(futures) :
          Cardinality({j \in 1 .. Len(results) : results[j].symbol = futures[i].symbol})
              = IF futures[i].state = "collected" /\ Kept(futures[i]) THEN 1 ELSE 0
    /\ \A i \in 1 .. Len(futures) :
          (futures[i].state = "collected" /\ Kept(futures[i]))
              => Cardinality(EntriesOf(futures[i])) = 1
    /\ Len(results) <= Len(futures)
    /\ completed = Cardinality({i \in 1 .. Len(futures) : futures[i].state = "collected"})

\* A worker step: some task goes from pending to finished.
WorkerStep ==
    \E i \in 1 .. Len(futures) :
        /\ i <= Len(futures')
        /\ futures[i].state = "pending"
        /\ futures'[i].state = "finished"

\* The step in which the list is sorted and returned.
SortStep == scan_pc = "running" /\ scan_pc' = "returned"

\* C15: in every interleaving, a worker step leaves the results list and the
\* progress counter alone; each completed task's kept result is in the list
\* exactly once; while tasks run the list only grows by appending; and the
\* sort happens only when every submitted task has completed and been
\* collected.
C15_CoordinatorOwnsResults ==
    /\ [](scan_pc \in {"running", "returned"} => EachResultOnce)
    /\ [][/\ WorkerStep => (results' = results /\ completed' = completed)
          /\ (scan_pc = "running" /\ scan_pc' = "running")
                => \/ results' = results
                   \/ \E x \in {futures[i].result[1] :
                                  i \in {j \in 1 .. Len(futures) : futures[j].result # <<>>}} :
                         results' = Append(results, x)
          /\ SortStep => \A i \in 1 .. Len(futures) : futures[i].state = "collected"]_vars

\* Tasks completed out of submission order: a later task has been collected
\* and its result appended while an earlier one is still running and a third
\* has finished but is not yet collected.
C15_Witness ==
    /\ scan_pc = "running"
    /\ Len(results) >= 1
    /\ \E i, j, k \in 1 .. Len(futures) :
          /\ i < j
          /\ futures[i].state = "pending"
          /\ futures[j].state = "collected"
          /\ futures[k].state = "finished"

\* C16: a scan of the scanner that is running eventually returns, also when
\* one task never finishes while all the others do.
C16_ReturnsDespiteHang ==
    (scan_kind = "scanner" /\ scan_pc = "running") ~> (scan_pc = "returned")

\* The kept results in the order in which the tasks were submitted: the list
\* the coordinator builds when the tasks complete in submission order.
InSubmissionOrder ==
    LET kept == SelectSeq(futures, LAMBDA f : Kept(f))
    IN  [i \in 1 .. Len(kept) |-> kept[i].result[1]]

\* C17: whatever the order in which the tasks completed, the returned list is
\* the one obtained when they complete in submission order, so the returned
\* order depends on the per-symbol outcomes only.
C17_OrderIndependentOfCompletion ==
    Returned =>
        results = IF scan_kind = "scanner" THEN scanner_sort(InSubmissionOrder)
                  ELSE analyzer_sort(InSubmissionOrder)

FlipCalled == call.fn = "find_gamma_flip" /\ call.done

\* The pairs (i, i+1) whose running sums lie on both sides of zero or on it,
\* and differ.
CrossingPairs(df) ==
    {i \in 1 .. Len(df) - 1 :
        /\ df[i].cumulative_gex * df[i + 1].cumulative_gex <= 0
        /\ df[i].cumulative_gex # df[i + 1].cumulative_gex}

FirstCrossing(df) == CHOOSE i \in CrossingPairs(df) : \A j \in CrossingPairs(df) : i <= j

\* x = strike_i + (|cum_i| / |cum_{i+1} - cum_i|) * (strike_{i+1} - strike_i)
IsCrossingPoint(x, df, i) ==
    LET span == Abs(df[i + 1].cumulative_gex - df[i].cumulative_gex)
    IN  /\ x.d > 0
        /\ x.n * span = x.d * (df[i].strike * span
                               + Abs(df[i].cumulative_gex) * (df[i + 1].strike - df[i].strike))

FlipTable(ks, cs) == [i \in 1 .. Len(ks) |-> [strike |-> ks[i], cumulative_gex |-> cs[i]]]

\* C18: find_gamma_flip returns the interpolated point of the first adjacent
\* pair, in ascending strike order, whose running sum crosses or touches zero,
\* whatever crossings follow; on strikes 95, 100, 105 with running sums -2, 1, 3
\* it returns 95 + (2/3) * 5.
C18_FirstCrossingInterpolated ==
    FlipCalled =>
        /\ CrossingPairs(call.df) # {}
              => IsCrossingPoint(call.out, call.df, FirstCrossing(call.df))
        /\ call.df = FlipTable(<<95, 100, 105>>, <<-2, 1, 3>>)
              => /\ 3 * call.out.n = 295 * call.out.d
                 /\ 95 * call.out.d < call.out.n /\ call.out.n < 100 * call.out.d

\* The running sum crosses zero between 95 and 100 and again between 105 and
\* 110; the call returned the point of the first crossing.
C18_Witness ==
    /\ FlipCalled
    /\ call.df = FlipTable(<<95, 100, 105, 110>>, <<-2, 1, 3, -2>>)
    /\ 3 * call.out.n = 295 * call.out.d

\* C19: find_gamma_flip never divides by zero; a pair of equal running sums
\* is passed over and the next crossing pair gives the result; without any
\* crossing pair the result is a strike of smallest absolute running sum, and
\* on the empty table it is the current price.
C19_EqualPairsSkippedAndFallbacks ==
    FlipCalled =>
        LET df == call.df
        IN  /\ call.out.d > 0
            /\ \A i \in 1 .. Len(df) - 1 :
                  (/\ df[i].cumulative_gex = df[i + 1].cumulative_gex
                   /\ i + 1 \in CrossingPairs(df)
                   /\ \A j \in 1 .. i - 1 : j \notin CrossingPairs(df))
                      => IsCrossingPoint(call.out, df, i + 1)
            /\ (df # <<>> /\ CrossingPairs(df) = {})
                  => \E i \in 1 .. Len(df) :
                        /\ call.out.n = df[i].strike * call.out.d
                        /\ \A j \in 1 .. Len(df) :
                              Abs(df[i].cumulative_gex) <= Abs(df[j].cumulative_gex)
            /\ df = <<>> => call.out.n = call.current_price * call.out.d

\* Both running sums of the first pair are zero, the pair after it crosses:
\* the call passed over the first pair and returned the second pair's point.
C19_Witness ==
    /\ FlipCalled
    /\ call.df = FlipTable(<<95, 100, 105>>, <<0, 0, 3>>)
    /\ call.out.d > 0
    /\ call.out.n = 100 * call.out.d

PainCalled == call.fn = "calculate_dealer_pain" /\ call.done

\* The four terms of the dealer pain score, from net_gex (in units of 1e8, so
\* |net_gex / 1e9| * 10 is its absolute value), distance_to_flip, and the
\* strike table's gamma within 1% of the price and volume against open
\* interest.
PainTerms(c) ==
    LET df    == c.strike_df
        all   == 1 .. Len(df)
        near  == {i \in all : /\ 100 * df[i].strike >= 99 * c.current_price
                              /\ 100 * df[i].strike <= 101 * c.current_price}
        sum(I, col) == SeqSum([i \in all |-> IF i \in I THEN df[i][col] ELSE 0])
        near_gamma  == sum(near, "call_gex") + Abs(sum(near, "put_gex"))
        total       == Max(Abs(sum(all, "call_gex")) + Abs(sum(all, "put_gex")), 1)
        volume      == sum(all, "call_volume") + sum(all, "put_volume")
        oi          == sum(all, "call_oi") + sum(all, "put_oi")
        dist        == c.distance_to_flip
        within(k)   == dist.d > 0 /\ Abs(dist.n) < k * dist.d
    IN  [a |-> IF c.net_gex < 0 THEN Min(50, Abs(c.net_gex)) ELSE 0,
         b |-> IF within(1) THEN 30 ELSE IF within(2) THEN 20 ELSE 0,
         c |-> IF near # {} /\ 100 * near_gamma > 70 * total THEN 20 ELSE 0,
         d |-> IF oi > 0 /\ 2 * volume > oi THEN 10 ELSE 0]

\* C20: calculate_dealer_pain returns min(100, a + b + c + d) with a the
\* negative-gamma term capped at 50, b the 30/20 closeness-to-flip term, c the
\* 20 for pin risk above 70 and d the 10 for institutional flow (volume above
\* half the open interest), and the result lies in [0, 100].
C20_DealerPainFormula ==
    PainCalled =>
        LET t == PainTerms(call)
        IN  /\ call.out = Min(100, t.a + t.b + t.c + t.d)
            /\ call.out >= 0 /\ call.out <= 100

\* All four terms are at their largest, 110 in sum, and the call returned 100.
C20_Witness ==
    /\ PainCalled
    /\ LET t == PainTerms(call) IN t.a = 50 /\ t.b = 30 /\ t.c = 20 /\ t.d = 10
    /\ call.out = 100

-----------------------------------------------------------------------------
(* Properties of the classifiers and signal families                       *)

StatusCalls == IF call.fn = "determine_mm_status" THEN 1 .. Len(call.out) ELSE {}

\* The status the priority list assigns to one call's arguments.
IsFirstMatch(status, a) ==
    LET close == a.distance_to_flip.d > 0
                 /\ Abs(a.distance_to_flip.n) < a.distance_to_flip.d
        rules == <<a.dealer_pain > 80, a.dealer_pain > 60, a.net_gex > 30, close, TRUE>>
        names == <<"TRAPPED SHORT", "SCRAMBLING", "DEFENDING", "VULNERABLE", "NEUTRAL">>
    IN  \E i \in 1 .. 5 : /\ rules[i]
                          /\ \A j \in 1 .. i - 1 : ~rules[j]
                          /\ status = names[i]

\* C21: every call of determine_mm_status returns the status of the first
\* rule its own three arguments satisfy (pain above 80, pain above 60, net_gex
\* above 3e9, flip closer than 1%, else neutral), whatever the call before it
\* was given and returned.
C21_FirstMatchMemoryless ==
    /\ \A i \in StatusCalls : IsFirstMatch(call.out[i], call.args[i])
    /\ (2 \in StatusCalls /\ call.args[1] = call.args[2]) => call.out[1] = call.out[2]

\* After a call that returned TRAPPED SHORT, a call with pain 61, net_gex
\* above 3e9 and the flip closer than 1% returned SCRAMBLING.
C21_Witness ==
    /\ 2 \in StatusCalls
    /\ call.out[1] = "TRAPPED SHORT"
    /\ call.args[2] = [net_gex |-> 31, dealer_pain |-> 61, distance_to_flip |-> Frac(0, 1)]
    /\ call.out[2] = "SCRAMBLING"

ToxicityCalled == call.fn = "calculate_flow_toxicity" /\ call.done

\* The rows of all expirations, calls and puts apart.
AllRows(chains, side) ==
    {x \in (1 .. Len(chains)) \X (1 .. 12) : x[2] <= Len(chains[x[1]][side])}

RowAt(chains, side, x) == chains[x[1]][side][x[2]]

\* The session is 9:30 to 16:00 (main.py:214-215): its first hour ends at
\* 10:30 and its last starts at 15:00.
InFirstOrLastHour(t) ==
    LET m == 60 * t.hour + t.minute
    IN  (570 <= m /\ m < 630) \/ (900 <= m /\ m < 960)

\* The terms of the toxicity score with far strikes measured from the spot
\* price and the clock held against the session's first and last hour.
ToxicityTerms(c) ==
    LET ch == c.chains
        rows(side) == AllRows(ch, side)
        n(side, Test(_)) == Cardinality({x \in rows(side) : Test(RowAt(ch, side, x))})
        large  == n("calls", LAMBDA r : r.openInterest > 1000)
                  + n("puts", LAMBDA r : r.openInterest > 1000)
        far    == n("calls", LAMBDA r : 10 * r.strike > 11 * c.current_price)
                  + n("puts", LAMBDA r : 10 * r.strike < 9 * c.current_price)
        small  == n("calls", LAMBDA r : r.volume < 10) + n("puts", LAMBDA r : r.volume < 10)
        weekly == SeqSum([k \in 1 .. Len(ch) |->
                             IF ch[k].dte <= 7
                             THEN SeqSum(Column(ch[k].calls, "volume"))
                                  + SeqSum(Column(ch[k].puts, "volume"))
                             ELSE 0])
    IN  [large  |-> IF large > 5 THEN 20 ELSE 0,
         weekly |-> IF c.total_volume > 0 /\ 10 * weekly > 7 * c.total_volume THEN -20 ELSE 0,
         far    |-> IF far > 10 THEN -15 ELSE 0,
         small  |-> IF small > 20 THEN -10 ELSE 0,
         hour   |-> IF InFirstOrLastHour(c.now) THEN 10 ELSE 0]

\* C22: calculate_flow_toxicity returns the sum, clipped to [-100, 100], of
\* +20 for more than 5 rows of open interest above 1000, -20 for weekly volume
\* above 70% of the total, -15 for more than 10 strikes farther than 10% from
\* the spot price, -10 for more than 20 rows of volume below 10, and +10 in
\* the first or the last hour of the session only.
C22_ToxicityTerms ==
    ToxicityCalled =>
        LET t == ToxicityTerms(call)
        IN  call.out = Max(-100, Min(100, t.large + t.weekly + t.far + t.small + t.hour))

SignalsCalled == call.fn = "generate_all_signals" /\ call.done

Emitted(sigs, dir) == {i \in 1 .. Len(sigs) : sigs[i].direction = dir}

\* C23: generate_squeeze_signals returns a BUY CALLS squeeze signal for SPY
\* exactly when net_gex < -1e9 or dealer_pain > 70, for QQQ exactly when
\* net_gex < -500e6 or dealer_pain > 70, and for every symbol when
\* dealer_pain > 70; an emitted signal has a confidence from 65 to 95.
C23_SqueezeCalls ==
    SignalsCalled =>
        LET p    == call.gex_profile
            sigs == call.squeeze_signals
        IN  /\ call.symbol = "SPY" => (Emitted(sigs, "BUY CALLS") # {}
                                         <=> (p.net_gex < -10 \/ p.dealer_pain > 70))
            /\ call.symbol = "QQQ" => (Emitted(sigs, "BUY CALLS") # {}
                                         <=> (p.net_gex < -5 \/ p.dealer_pain > 70))
            /\ p.dealer_pain > 70 => Emitted(sigs, "BUY CALLS") # {}
            /\ \A i \in Emitted(sigs, "BUY CALLS") :
                  /\ sigs[i].type = "SQUEEZE_PLAY"
                  /\ sigs[i].confidence >= 6500
                  /\ sigs[i].confidence <= 9500

\* SPY at net_gex = -1.5e9 with dealer_pain not above 70: the signal is there
\* on the strength of the threshold alone, with confidence at least 65.
C23_Witness ==
    /\ SignalsCalled
    /\ call.symbol = "SPY"
    /\ call.gex_profile.net_gex = -15
    /\ call.gex_profile.dealer_pain <= 70
    /\ \E i \in Emitted(call.squeeze_signals, "BUY CALLS") :
          call.squeeze_signals[i].confidence >= 6500

\* The profiles that differ from the called one in the three entries
\* generate_squeeze_signals decides on.
SqueezeProfiles ==
    {[call.gex_profile EXCEPT !.net_gex = g, !.dealer_pain = dp, !.distance_to_flip = d] :
        g \in SignalNetGex, dp \in SignalPains, d \in SignalDistances}

\* C24: for a symbol that is neither SPY nor QQQ there is a profile on which
\* its squeeze signals differ from those of SPY, and one on which they differ
\* from those of QQQ.
C24_OtherSymbolsOwnThresholds ==
    (SignalsCalled /\ call.symbol \notin {"SPY", "QQQ"}) =>
        /\ \E p \in SqueezeProfiles :
              generate_squeeze_signals(p, call.symbol) # generate_squeeze_signals(p, "SPY")
        /\ \E p \in SqueezeProfiles :
              generate_squeeze_signals(p, call.symbol) # generate_squeeze_signals(p, "QQQ")

\* lo% < 100 * gap / current_price < hi%
InsideBand(gap, current_price, lo, hi) ==
    lo * current_price < 100 * gap /\ 100 * gap < hi * current_price

\* C25: a SELL CALLS signal is returned only when net_gex > 3e9 and the
\* strongest call wall lies strictly between 1% and 5% above the price, and a
\* SELL PUTS signal only when net_gex > 3e9 and the strongest put wall lies
\* strictly between 1% and 8% below the price.
C25_PremiumSidesSymmetric ==
    SignalsCalled =>
        LET p    == call.gex_profile
            sigs == call.premium_signals
        IN  /\ Emitted(sigs, "SELL CALLS") # {}
                  => /\ p.net_gex > 30
                     /\ p.call_walls # <<>>
                     /\ InsideBand(p.call_walls[1].strike - p.current_price,
                                   p.current_price, 1, 5)
            /\ Emitted(sigs, "SELL PUTS") # {}
                  => /\ p.net_gex > 30
                     /\ p.put_walls # <<>>
                     /\ InsideBand(p.current_price - p.put_walls[1].strike,
                                   p.current_price, 1, 8)

\* The strikes of the walls nearest to the price.
NearestStrikes(walls, current_price) ==
    {walls[i].strike : i \in {i \in 1 .. Len(walls) :
        \A j \in 1 .. Len(walls) :
            Abs(walls[i].strike - current_price) <= Abs(walls[j].strike - current_price)}}

\* C26: an IRON_CONDOR signal is returned exactly when net_gex > 1e9, there
\* are call walls and put walls, and the call wall nearest to the price lies
\* more than 3% of the price above the put wall nearest to it; the condor's
\* short strikes are those two walls.
C26_CondorOnNearestWalls ==
    SignalsCalled =>
        LET p    == call.gex_profile
            sigs == call.condor_signals
            wide(c, q) == 100 * (c - q) > 3 * p.current_price
        IN  /\ Emitted(sigs, "SELL CONDOR") # {}
                  <=> /\ p.net_gex > 10
                      /\ p.call_walls # <<>> /\ p.put_walls # <<>>
                      /\ \E c \in NearestStrikes(p.call_walls, p.current_price),
                            q \in NearestStrikes(p.put_walls, p.current_price) : wide(c, q)
            /\ \A i \in Emitted(sigs, "SELL CONDOR") :
                  /\ sigs[i].type = "IRON_CONDOR"
                  /\ \E c \in NearestStrikes(p.call_walls, p.current_price),
                        q \in NearestStrikes(p.put_walls, p.current_price) :
                        sigs[i].entry = <<q, c>>

\* The signals of the fallback branch among the returned ones.
FallbackEmitted(sigs) == {i \in 1 .. Len(sigs) : sigs[i].type \in {"VOLATILITY", "WAIT"}}

NoFamilySignal ==
    /\ call.squeeze_signals = <<>>
    /\ call.premium_signals = <<>>
    /\ call.condor_signals = <<>>

\* C27: on a present profile generate_all_signals returns a VOLATILITY or
\* WAIT signal exactly when the three families returned nothing; it is then
\* the only signal, VOLATILITY when dealer_pain > 60 and WAIT otherwise, and
\* otherwise the returned signals are the family signals alone.
C27_FallbackOnlyWhenNoFamily ==
    SignalsCalled =>
        /\ FallbackEmitted(call.out) # {} <=> NoFamilySignal
        /\ NoFamilySignal
              => /\ Len(call.out) = 1
                 /\ call.out[1].type = IF call.gex_profile.dealer_pain > 60
                                       THEN "VOLATILITY" ELSE "WAIT"
        /\ ~NoFamilySignal
              => Len(call.out) = Len(call.squeeze_signals) + Len(call.premium_signals)
                                 + Len(call.condor_signals)

\* No family fired on a profile with dealer_pain 61: the one signal returned
\* is the VOLATILITY signal.
C27_Witness ==
    /\ SignalsCalled
    /\ NoFamilySignal
    /\ call.gex_profile.dealer_pain = 61
    /\ Len(call.out) = 1
    /\ call.out[1].type = "VOLATILITY"

-----------------------------------------------------------------------------
(* The scanner's padding of the caller's list, checked under SpecScan      *)

ScannerCalled == scan_kind = "scanner" /\ scan_pc # "idle"

\* The master symbols the caller's list lacked, in master order.
Lacking == SelectSeq(MasterSymbols, LAMBDA x : ~InSeq(x, scan_input))

\* C28: a scanner scan of a list shorter than the minimum leaves the caller's
\* list extended by master symbols it lacked, up to the minimum length or
\* until none is left; a list of the minimum length is left alone; every
\* entry of the resulting list has exactly one task, and the returned
\* results are results of entries of that list.
C28_CallerListPadded ==
    ScannerCalled =>
        /\ \E k \in 0 .. Len(Lacking) :
              /\ symbols = scan_input \o SubSeq(Lacking, 1, k)
              /\ Len(scan_input) >= MinScanSymbols => k = 0
              /\ Len(scan_input) < MinScanSymbols
                    => (Len(symbols) = MinScanSymbols \/ k = Len(Lacking))
        /\ Len(futures) = Len(symbols)
        /\ \A i \in 1 .. Len(symbols) : futures[i].symbol = symbols[i]
        /\ \A i \in 1 .. Len(results) : InSeq(results[i].symbol, symbols)

\* A scan of one symbol returned: the caller's list now holds three, all
\* three had a task, and a result for a symbol the caller never passed is
\* among the returned ones.
C28_Witness ==
    /\ ScannerCalled
    /\ scan_pc = "returned"
    /\ Len(scan_input) = 1
    /\ Len(symbols) = MinScanSymbols
    /\ \E i \in 1 .. Len(results) : ~InSeq(results[i].symbol, scan_input)

-----------------------------------------------------------------------------
(* The position manager's bookkeeping, checked under SpecPositions         *)

AllPositions == positions \o closed_positions

IdsIn(list) == {list[i].id : i \in 1 .. Len(list)}

PositionBooksInOrder ==
    /\ \A id \in 1 .. position_counter :
          Cardinality({i \in 1 .. Len(AllPositions) : AllPositions[i].id = id}) = 1
    /\ IdsIn(AllPositions) = 1 .. position_counter
    /\ \A i \in 1 .. Len(positions) : positions[i].status = "OPEN"
    /\ \A i \in 1 .. Len(closed_positions) :
          /\ closed_positions[i].status = "CLOSED"
          /\ "close_reason" \in DOMAIN closed_positions[i]
          /\ closed_positions[i].close_reason # ""
    /\ \A i, j \in 1 .. Len(AllPositions) :
          AllPositions[i].id < AllPositions[j].id
             => AllPositions[i].entry_time =< AllPositions[j].entry_time
    /\ \A i, j \in 1 .. Len(positions) : i < j => positions[i].id < positions[j].id

\* C29: after any sequence of add_position, update_positions and
\* manual_close_position calls, every position ever added is in exactly one
\* of positions and closed_positions, the active entries are OPEN, the
\* history entries are CLOSED and carry a close_reason, ids are unique and
\* grow in creation order, and a closed position stays closed.
C29_PositionBooks ==
    /\ []PositionBooksInOrder
    /\ [][/\ Len(closed_positions') >= Len(closed_positions)
          /\ \A i \in 1 .. Len(closed_positions) :
                closed_positions'[i] = closed_positions[i]
          /\ \A id \in IdsIn(closed_positions) : id \notin IdsIn(positions')
          /\ \A id \in IdsIn(AllPositions') \ IdsIn(AllPositions) :
                \A old \in IdsIn(AllPositions) : id > old]_vars

\* Both positions were added and both are closed, the later one first and by
\* hand, the earlier one by update_positions when its day had run out.
C29_Witness ==
    /\ position_counter = 2
    /\ positions = <<>>
    /\ Len(closed_positions) = 2
    /\ closed_positions[1].id = 2
    /\ closed_positions[1].close_reason = "MANUAL CLOSE"
    /\ closed_positions[2].id = 1
    /\ closed_positions[2].close_reason = "TIME EXIT (24H)"

-----------------------------------------------------------------------------
(* The auto scan's throttle, checked under SpecAuto                        *)

ScansBefore(i) == {k \in 1 .. i - 1 : auto_log[k].scanned}

LastScanBefore(i) == CHOOSE k \in ScansBefore(i) : \A g \in ScansBefore(i) : g =< k

\* The i-th call was made between 9:00 and 16:00 and no scan had been made
\* or the last one had started two hours or more before.
ScanDue(i) ==
    /\ 9 =< hour_of(auto_log[i].at)
    /\ hour_of(auto_log[i].at) < 16
    /\ \/ ScansBefore(i) = {}
       \/ auto_log[i].at - auto_log[LastScanBefore(i)].at >= auto_scan_interval * 2

\* C30: auto_scan_and_alert scans only when the hour is from 9 to 15 and no
\* scan was made before or the last performed scan started auto_scan_interval
\* hours or more ago; every other call sends no alert and leaves
\* last_auto_scan unchanged; two performed scans start at least two hours
\* apart; and a performed scan sends at most three alerts.
C30_AutoScanThrottled ==
    /\ [](\A i \in 1 .. Len(auto_log) :
            /\ auto_log[i].scanned <=> ScanDue(i)
            /\ ~auto_log[i].scanned => auto_log[i].alerts = 0
            /\ auto_log[i].alerts =< 3
            /\ \A j \in 1 .. Len(auto_log) :
                  (i < j /\ auto_log[i].scanned /\ auto_log[j].scanned)
                     => auto_log[j].at - auto_log[i].at >= 2 * 2)
    /\ [][Len(auto_log') > Len(auto_log)
            => IF auto_log'[Len(auto_log')].scanned
               THEN last_auto_scan' = <<clock>>
               ELSE last_auto_scan' = last_auto_scan]_vars

\* A scan at 9:00 that sent three alerts, a call at 10:30 that was skipped and
\* a second scan at 11:00.
C30_Witness ==
    /\ Len(auto_log) = 3
    /\ auto_log[1] = [at |-> 18, scanned |-> TRUE, alerts |-> 3]
    /\ auto_log[2] = [at |-> 21, scanned |-> FALSE, alerts |-> 0]
    /\ auto_log[3].at = 22
    /\ auto_log[3].scanned

====
